---------------------------- MODULE Spec2Model ----------------------------
(***************************************************************************)
(* A model of librseq's cpu-op.c: the encoders that assemble each atomic   *)
(* primitive into an operation vector, the cpu_opv submission wrapper, and *)
(* the retry loop of cpu_op_cmpnev_storeoffp_load.                         *)
(*                                                                         *)
(* The cpu_opv system call itself (the pinned-execution substrate) is not  *)
(* part of cpu-op.c.  It is modelled from the specification: operations    *)
(* are applied in order on the target CPU, no other code runs on that CPU  *)
(* while a vector is applied, the first failing comparison or faulting     *)
(* operand aborts the rest, and code on OTHER CPUs is not excluded.        *)
(*                                                                         *)
(* Memory is an array of words.  An operand is either a word of shared     *)
(* memory (which may be unmapped, and then faults) or a cell of the        *)
(* caller's own frame (an argument passed by value and addressed with &,   *)
(* or a caller-supplied private buffer); frame cells of distinct names are *)
(* distinct objects.  Lengths are counted in words.                        *)
(***************************************************************************)
EXTENDS Integers, Sequences, FiniteSets, TLC

\* ------------------------------------------------------------------ bounds
NAddr == 5          \* shared memory is the words 1..NAddr; 0 is the null address
NThreads == 2       \* calling threads
NCpu == 2           \* CPUs 0..NCpu-1; NCpu itself is an invalid CPU id
MaxLen == 2         \* longest block copy, in words
MaxWord == 1        \* the callers' data values are 0..MaxWord
MaxOff == 1         \* the offsets voffp are 0..MaxOff
MaxUnmapped == 1    \* at most this many words are inaccessible at a time
MaxWrites == 2      \* stores other agents make during one call of the retry
                    \* loop, in the scenario of its termination
ByteBits == 2       \* bits of a byte: an integer of len bytes counts modulo
                    \* 2^(ByteBits * len) (scaled down from 8 bits)

Addr == 1..NAddr
Val == 0..NAddr     \* a word holds a small integer, which may be an address
Words == 0..MaxWord
Threads == 1..NThreads
Cpus == 0..(NCpu - 1)

\* The shared words the scenarios use.
V == 1              \* the word every primitive guards (v)
V2 == 2             \* the second word of the two-location primitives (v2)

\* ------------------------------------------------- declarations of cpu-op.h
CPU_OP_VEC_LEN_MAX == 16
CPU_OP_NR_FLAG == 1
SizeofIntptr == 8   \* sizeof(intptr_t), in bytes

\* errno values the substrate reports through syscall()'s -1
EAGAIN == "EAGAIN"
EFAULT == "EFAULT"
EINVAL == "EINVAL"
ENOSYS == "ENOSYS"
NoErrno == "0"

VARIABLES
    mem,        \* [Addr -> Val]: the shared words
    mapped,     \* the addresses whose page is accessible
    present,    \* whether the system has the cpu_opv system call
    pc,         \* per thread: "idle", "kernel", "read", "chk", "store", "done"
    call,       \* per thread: the running call's function, arguments and buffers
    vec,        \* per thread: the operation vector handed to cpu_opv
    cnt,        \* per thread: the cpuopcnt handed to cpu_opv
    opidx,      \* per thread: index of the next operation the substrate applies
    ret,        \* per thread: the int the last syscall / call returned
    errno,      \* per thread: errno
    curcpu,     \* per thread: the CPU it runs on
    oldv,       \* per thread: the local oldv of cpu_op_cmpnev_storeoffp_load
    issued,     \* per thread: a request went to the substrate since the call
                \* began (or, in the retry loop, since the last plain read)
    hist,       \* per thread: what its last vector saw and did (history)
    obs         \* the record of the scenario: its parameters and what its
                \* observer has read (each specification has its own)
vars == <<mem, mapped, present, pc, call, vec, cnt, opidx, ret, errno, curcpu,
          oldv, issued, hist, obs>>


\* ---------------------------------------------------------------- operands
\* A word of shared memory at address a.
Mem(a) == [k |-> "mem", a |-> a, f |-> ""]
\* The cell named f of the caller's frame (&expect, &newv, old, n, ...).
Frame(f) == [k |-> "frame", a |-> 0, f |-> f]

\* struct cpu_op, one record per kind (the initializers of cpu-op.c).
CompareEq(len, a, b, expect_fault_a, expect_fault_b) ==
    [op |-> "CPU_COMPARE_EQ_OP", len |-> len, a |-> a, b |-> b,
     expect_fault_a |-> expect_fault_a, expect_fault_b |-> expect_fault_b]
Memcpy(op, len, dst, src, expect_fault_dst, expect_fault_src) ==
    [op |-> op, len |-> len, dst |-> dst, src |-> src,
     expect_fault_dst |-> expect_fault_dst, expect_fault_src |-> expect_fault_src]

\* The arithmetic operations: len is the width, in bytes, of the integer at p.
Arith(op, len, p, count, expect_fault_p) ==
    [op |-> op, len |-> len, p |-> p, count |-> count,
     expect_fault_p |-> expect_fault_p]

\* The frame of a thread that is not in a call.
NoCall ==
    [fn |-> "none", v |-> 0, expect |-> 0, old |-> 0, n |-> 0, newv |-> 0,
     v2 |-> 0, newv2 |-> 0, expect2 |-> 0, dst |-> 0, src |-> 0, len |-> 0,
     expectnot |-> 0, voffp |-> 0, load |-> 0, cpu |-> 0, cpuopcnt |-> 0,
     flags |-> 0, count |-> 0]

\* What a vector saw and did, kept for the properties only.
NoHist ==
    [v0 |-> -1,          \* what the word v held when the vector began
     v20 |-> -1,         \* what the word v2 held when the vector began
     cmps |-> << >>,     \* the value operand a held at each comparison, in order
     pre |-> FALSE,      \* another agent wrote shared memory between the
                         \* call's last plain read and this request
     applied |-> FALSE,  \* the substrate evaluated at least one operation
     fault |-> "",       \* the operand ("a", "b", "dst", "src", "p") that faulted
     marked |-> FALSE,   \* the operand that faulted was marked expect_fault
     seen |-> -1,        \* the value operand a held at the last comparison
     srcval |-> -1,      \* the first word the last copy read from its source
     chgMem |-> {},      \* shared words whose value the vector changed
     chgFrame |-> {},    \* frame cells whose value the vector changed
     wr |-> << >>,       \* the vector's stores into shared words, in order:
                         \* the address, and whether the store carries release
     intf |-> FALSE]     \* another agent wrote shared memory since the call began

\* --------------------------------------------------------------- substrate
\* The cpu_opv system call, modelled from the specification.

\* An operand faults when one of its words is not accessible; a frame cell
\* never does.
Faults(x, len) ==
    x.k = "mem" /\ \E i \in 0..(len - 1) : (x.a + i) \notin mapped
\* Word i of operand x, as thread t's vector reads it.
Rd(t, x, i) == IF x.k = "mem" THEN mem[x.a + i] ELSE call[t][x.f]

\* The threads whose vector is being applied on CPU c.
InKernel(c) == {u \in Threads : pc[u] = "kernel" /\ curcpu[u] = c}
\* Thread t, in user mode, runs only while no vector is applied on its CPU.
CanRun(t) == InKernel(curcpu[t]) = {}

\* Where the caller of cpu_opv resumes: the retry loop and cpu_op_available
\* examine ret, every other primitive returns it as it is.
AfterSys(fn) ==
    IF fn = "cpu_op_cmpnev_storeoffp_load" THEN "chk"
    ELSE IF fn = "cpu_op_available" THEN "avail"
    ELSE "done"

\* syscall() returns r; a failure is -1 with errno e.  The request is over.
SysReturn(t, fn, r, e) ==
    /\ pc' = [pc EXCEPT ![t] = AfterSys(fn)]
    /\ ret' = [ret EXCEPT ![t] = r]
    /\ errno' = [errno EXCEPT ![t] = IF r = -1 THEN e ELSE @]
    /\ vec' = [vec EXCEPT ![t] = << >>]
    /\ cnt' = [cnt EXCEPT ![t] = 0]
    /\ opidx' = [opidx EXCEPT ![t] = 0]

\* The history of thread t becomes own; a write to shared memory is
\* interference for every other thread.
HistStep(t, own, wroteMem) ==
    hist' = [u \in Threads |->
                IF u = t THEN own
                ELSE [hist[u] EXCEPT !.intf = @ \/ (wroteMem /\ pc[u] # "idle")]]

\* Entry of the system call: the request is refused, answered at once (the
\* probe), or its vector starts being applied on the target CPU.
\* The content of the word at a, -1 when a is no address.
WordAt(a) == IF a \in Addr THEN mem[a] ELSE -1

\* The request is answered without any operation being applied.
SysRefuse(t, fn, r, e) ==
    /\ SysReturn(t, fn, r, e)
    /\ hist' = [hist EXCEPT ![t] = NoHist]
    /\ UNCHANGED curcpu

sys_cpu_opv(t, fn, opvec, cpuopcnt, cpu, flags) ==
    /\ IF ~present
         THEN SysRefuse(t, fn, -1, ENOSYS)
       ELSE IF flags = CPU_OP_NR_FLAG
         THEN SysRefuse(t, fn, CPU_OP_VEC_LEN_MAX, NoErrno)
       ELSE IF cpuopcnt > CPU_OP_VEC_LEN_MAX \/ cpu \notin Cpus
         THEN SysRefuse(t, fn, -1, EINVAL)
       ELSE IF cpuopcnt = 0
         THEN SysRefuse(t, fn, 0, NoErrno)
       ELSE /\ InKernel(cpu) = {}
            /\ hist' = [hist EXCEPT ![t] = [NoHist EXCEPT !.v0 = WordAt(call'[t].v),
                                                          !.v20 = WordAt(call'[t].v2),
                                                          !.pre = hist[t].intf]]
            /\ pc' = [pc EXCEPT ![t] = "kernel"]
            /\ vec' = [vec EXCEPT ![t] = opvec]
            /\ cnt' = [cnt EXCEPT ![t] = cpuopcnt]
            /\ opidx' = [opidx EXCEPT ![t] = 1]
            /\ curcpu' = [curcpu EXCEPT ![t] = cpu]
            /\ UNCHANGED <<ret, errno>>

\* An operand of the current operation faulted: EAGAIN when the operand was
\* marked expect_fault, EFAULT otherwise.  Nothing later is applied.
KFault(t, operand, expect_fault) ==
    /\ SysReturn(t, call[t].fn, -1, IF expect_fault = 1 THEN EAGAIN ELSE EFAULT)
    /\ HistStep(t, [hist[t] EXCEPT !.applied = TRUE, !.fault = operand,
                                    !.marked = (expect_fault = 1)], FALSE)
    /\ UNCHANGED <<mem, call>>

\* The current operation succeeded: the next one, or success after the last.
KAdvance(t) ==
    IF opidx[t] = cnt[t]
    THEN SysReturn(t, call[t].fn, 0, NoErrno)
    ELSE opidx' = [opidx EXCEPT ![t] = @ + 1] /\ UNCHANGED <<pc, ret, errno, vec, cnt>>

\* CPU_COMPARE_EQ_OP: a mismatch ends the vector with the operation's
\* 1-based index, a positive value.
KCompare(t, op) ==
    IF Faults(op.a, op.len) THEN KFault(t, "a", op.expect_fault_a)
    ELSE IF Faults(op.b, op.len) THEN KFault(t, "b", op.expect_fault_b)
    ELSE /\ HistStep(t, [hist[t] EXCEPT !.applied = TRUE,
                                         !.seen = Rd(t, op.a, 0),
                                         !.cmps = Append(@, Rd(t, op.a, 0))], FALSE)
         /\ UNCHANGED <<mem, call>>
         /\ IF \A i \in 0..(op.len - 1) : Rd(t, op.a, i) = Rd(t, op.b, i)
            THEN KAdvance(t)
            ELSE SysReturn(t, call[t].fn, opidx[t], NoErrno)

\* CPU_MEMCPY_OP and CPU_MEMCPY_RELEASE_OP: copy len words from src to dst.
KMemcpy(t, op) ==
    IF Faults(op.dst, op.len) THEN KFault(t, "dst", op.expect_fault_dst)
    ELSE IF Faults(op.src, op.len) THEN KFault(t, "src", op.expect_fault_src)
    ELSE IF op.dst.k = "mem"
    THEN LET newMem == [x \in Addr |->
                          IF x \in op.dst.a..(op.dst.a + op.len - 1)
                          THEN Rd(t, op.src, x - op.dst.a) ELSE mem[x]]
         IN  /\ mem' = newMem
             /\ HistStep(t, [hist[t] EXCEPT
                                !.applied = TRUE,
                                !.srcval = Rd(t, op.src, 0),
                                !.chgMem = @ \cup {x \in Addr : newMem[x] # mem[x]},
                                !.wr = @ \o [i \in 1..op.len |->
                                               [a |-> op.dst.a + i - 1,
                                                rel |-> op.op = "CPU_MEMCPY_RELEASE_OP"]]],
                         TRUE)
             /\ UNCHANGED call
             /\ KAdvance(t)
    ELSE /\ call' = [call EXCEPT ![t][op.dst.f] = Rd(t, op.src, 0)]
         /\ HistStep(t, [hist[t] EXCEPT
                            !.applied = TRUE,
                            !.srcval = Rd(t, op.src, 0),
                            !.chgFrame = @ \cup (IF call[t][op.dst.f] # Rd(t, op.src, 0)
                                                 THEN {op.dst.f} ELSE {})],
                     FALSE)
         /\ UNCHANGED mem
         /\ KAdvance(t)

\* An integer of len bytes counts modulo this.
Modulus(len) == 2 ^ (ByteBits * len)
\* The word w after count is added to its low len bytes.
AddTo(w, count, len) ==
    (w - (w % Modulus(len))) + (((w % Modulus(len)) + count) % Modulus(len))

\* CPU_ADD_OP and CPU_ADD_RELEASE_OP: add count to the integer at p, in one
\* step that no other code of the CPU can split.
KAdd(t, op) ==
    IF Faults(op.p, 1) THEN KFault(t, "p", op.expect_fault_p)
    ELSE /\ mem' = [mem EXCEPT ![op.p.a] = AddTo(@, op.count, op.len)]
         /\ HistStep(t, [hist[t] EXCEPT
                            !.applied = TRUE,
                            !.chgMem = @ \cup (IF AddTo(mem[op.p.a], op.count, op.len)
                                                   # mem[op.p.a]
                                               THEN {op.p.a} ELSE {}),
                            !.wr = Append(@, [a |-> op.p.a,
                                              rel |-> op.op = "CPU_ADD_RELEASE_OP"])],
                     TRUE)
         /\ UNCHANGED call
         /\ KAdvance(t)

\* The substrate applies the next operation of thread t's vector.
KStep(t) ==
    /\ pc[t] = "kernel"
    /\ LET op == vec[t][opidx[t]]
       IN  IF op.op = "CPU_COMPARE_EQ_OP" THEN KCompare(t, op)
           ELSE IF op.op \in {"CPU_ADD_OP", "CPU_ADD_RELEASE_OP"} THEN KAdd(t, op)
           ELSE KMemcpy(t, op)
    /\ UNCHANGED <<mapped, present, curcpu, oldv, issued>>

\* ---------------------------------------------------------------- cpu-op.c
\* A variant that validates the count itself and refuses an oversized vector
\* without making the system call.
cpu_opv_ChecksCount(t, fn, opvec, cpuopcnt, cpu, flags) ==
    IF cpuopcnt > CPU_OP_VEC_LEN_MAX
    THEN SysRefuse(t, fn, -1, EINVAL) /\ UNCHANGED issued
    ELSE /\ issued' = [issued EXCEPT ![t] = TRUE]
         /\ sys_cpu_opv(t, fn, opvec, cpuopcnt, cpu, flags)

\* A variant that pins the request to the CPU the thread is running on now
\* instead of the CPU it was given.
cpu_opv_OnCurrentCpu(t, fn, opvec, cpuopcnt, cpu, flags) ==
    /\ issued' = [issued EXCEPT ![t] = TRUE]
    /\ sys_cpu_opv(t, fn, opvec, cpuopcnt, curcpu[t], flags)

\* cpu_opv: hands the request to the system call, whatever it is.
cpu_opv(t, fn, opvec, cpuopcnt, cpu, flags) ==
    /\ issued' = [issued EXCEPT ![t] = TRUE]
    /\ sys_cpu_opv(t, fn, opvec, cpuopcnt, cpu, flags)

\* cpu_op_get_current_cpu: cpu is what sched_getcpu() returned; a negative
\* value ends the process (abort()), any other is returned.
cpu_op_get_current_cpu(t, cpu) ==
    /\ pc[t] = "idle"
    /\ call' = [call EXCEPT ![t] = [NoCall EXCEPT !.fn = "cpu_op_get_current_cpu"]]
    /\ IF cpu < 0
       THEN pc' = [u \in Threads |-> "aborted"] /\ UNCHANGED ret
       ELSE pc' = [pc EXCEPT ![t] = "done"] /\ ret' = [ret EXCEPT ![t] = cpu]
    /\ UNCHANGED <<mem, mapped, present, vec, cnt, opidx, errno, curcpu, oldv,
                   issued, hist>>

\* cpu_op_available: rc = cpu_opv(NULL, 0, 0, CPU_OP_NR_FLAG);
cpu_op_available(t) ==
    /\ pc[t] = "idle"
    /\ call' = [call EXCEPT ![t] = [NoCall EXCEPT !.fn = "cpu_op_available",
                                                  !.flags = CPU_OP_NR_FLAG]]
    /\ cpu_opv(t, "cpu_op_available", << >>, 0, 0, CPU_OP_NR_FLAG)
    /\ UNCHANGED <<mem, mapped, present, oldv>>

\* A slip: only a result of 0 counts as present (if (!rc) return 1).
cpu_op_available_ret_ZeroOnly(t) ==
    /\ pc[t] = "avail"
    /\ CanRun(t)
    /\ ret' = [ret EXCEPT ![t] = IF @ = 0 THEN 1 ELSE 0]
    /\ pc' = [pc EXCEPT ![t] = "done"]
    /\ UNCHANGED <<mem, mapped, present, call, vec, cnt, opidx, errno, curcpu,
                   oldv, issued, hist>>

\* cpu_op_available: if (rc >= 0) return 1; return 0;
cpu_op_available_ret(t) ==
    /\ pc[t] = "avail"
    /\ CanRun(t)
    /\ ret' = [ret EXCEPT ![t] = IF @ >= 0 THEN 1 ELSE 0]
    /\ pc' = [pc EXCEPT ![t] = "done"]
    /\ UNCHANGED <<mem, mapped, present, call, vec, cnt, opidx, errno, curcpu,
                   oldv, issued, hist>>

\* A call begins: the frame holds the arguments.  (Which CPU an idle thread
\* is on is not recorded: the scheduler may have put it anywhere.)
Enter(t, frame) ==
    /\ pc[t] = "idle"
    /\ call' = [call EXCEPT ![t] = frame]

\* No thread is inside a call.
AllIdle == \A u \in Threads : pc[u] = "idle"

\* A slip: old is filled after the store instead of before the comparison.
opvec_cmpxchg_OldLast(v, len) ==
    << CompareEq(len, Mem(v), Frame("expect"), 0, 0),
       Memcpy("CPU_MEMCPY_OP", len, Mem(v), Frame("n"), 0, 0),
       Memcpy("CPU_MEMCPY_OP", len, Frame("old"), Mem(v), 0, 0) >>

\* A slip: the comparison is made with the copy just taken into old.
opvec_cmpxchg_ComparesOld(v, len) ==
    << Memcpy("CPU_MEMCPY_OP", len, Frame("old"), Mem(v), 0, 0),
       CompareEq(len, Mem(v), Frame("old"), 0, 0),
       Memcpy("CPU_MEMCPY_OP", len, Mem(v), Frame("n"), 0, 0) >>

\* The vector of cpu_op_cmpxchg.
opvec_cmpxchg(v, len) ==
    << Memcpy("CPU_MEMCPY_OP", len, Frame("old"), Mem(v), 0, 0),
       CompareEq(len, Mem(v), Frame("expect"), 0, 0),
       Memcpy("CPU_MEMCPY_OP", len, Mem(v), Frame("n"), 0, 0) >>

cpu_op_cmpxchg(t, v, expect, old, n, len, cpu) ==
    /\ Enter(t, [NoCall EXCEPT !.fn = "cpu_op_cmpxchg", !.v = v,
                               !.expect = expect, !.old = old, !.n = n,
                               !.len = len, !.cpu = cpu])
    /\ cpu_opv(t, "cpu_op_cmpxchg", opvec_cmpxchg(v, len),
               Len(opvec_cmpxchg(v, len)), cpu, 0)
    /\ UNCHANGED <<mem, mapped, present, oldv>>

\* A slip: the copy stores the expected value instead of the new one.
opvec_cmpeqv_storev_StoresExpect(v) ==
    << CompareEq(1, Mem(v), Frame("expect"), 0, 0),
       Memcpy("CPU_MEMCPY_OP", 1, Mem(v), Frame("expect"), 0, 0) >>

\* The vector of cpu_op_cmpeqv_storev.
opvec_cmpeqv_storev(v) ==
    << CompareEq(1, Mem(v), Frame("expect"), 0, 0),
       Memcpy("CPU_MEMCPY_OP", 1, Mem(v), Frame("newv"), 0, 0) >>

cpu_op_cmpeqv_storev(t, v, expect, newv, cpu) ==
    /\ Enter(t, [NoCall EXCEPT !.fn = "cpu_op_cmpeqv_storev", !.v = v,
                               !.expect = expect, !.newv = newv, !.cpu = cpu])
    /\ cpu_opv(t, "cpu_op_cmpeqv_storev", opvec_cmpeqv_storev(v),
               Len(opvec_cmpeqv_storev(v)), cpu, 0)
    /\ UNCHANGED <<mem, mapped, present, oldv>>

\* A slip: the copy's source is not marked as expected to fault.
opvec_cmpeqv_storep_expect_fault_Unmarked(v, newp) ==
    << CompareEq(1, Mem(v), Frame("expect"), 0, 0),
       Memcpy("CPU_MEMCPY_OP", 1, Mem(v), Mem(newp), 0, 0) >>

\* The vector of cpu_op_cmpeqv_storep_expect_fault: the copy's source is the
\* word at newp, and a fault on it is expected.
opvec_cmpeqv_storep_expect_fault(v, newp) ==
    << CompareEq(1, Mem(v), Frame("expect"), 0, 0),
       Memcpy("CPU_MEMCPY_OP", 1, Mem(v), Mem(newp), 0, 1) >>

cpu_op_cmpeqv_storep_expect_fault(t, v, expect, newp, cpu) ==
    /\ call' = [call EXCEPT ![t].expect = expect]
    /\ cpu_opv(t, call[t].fn, opvec_cmpeqv_storep_expect_fault(v, newp),
               Len(opvec_cmpeqv_storep_expect_fault(v, newp)), cpu, 0)

\* cpu_op_cmpnev_storeoffp_load is entered by a thread running on CPU on; its
\* loop begins with a read.
cpu_op_cmpnev_storeoffp_load(t, v, expectnot, voffp, load, cpu, on) ==
    /\ Enter(t, [NoCall EXCEPT !.fn = "cpu_op_cmpnev_storeoffp_load", !.v = v,
                               !.expectnot = expectnot, !.voffp = voffp,
                               !.load = load, !.cpu = cpu])
    /\ InKernel(on) = {}
    /\ curcpu' = [curcpu EXCEPT ![t] = on]
    /\ pc' = [pc EXCEPT ![t] = "read"]
    /\ issued' = [issued EXCEPT ![t] = FALSE]
    /\ UNCHANGED <<mem, mapped, present, vec, cnt, opidx, ret, errno, oldv,
                   hist>>

\* A slip: the stop value is not checked before the submission.
LoopRead_NoSentinel(t) ==
    /\ pc[t] = "read"
    /\ CanRun(t)
    /\ call[t].v \in mapped
    /\ oldv' = [oldv EXCEPT ![t] = mem[call[t].v]]
    /\ issued' = [issued EXCEPT ![t] = FALSE]
    /\ hist' = [hist EXCEPT ![t] = NoHist]
    /\ pc' = [pc EXCEPT ![t] = "submit"]
    /\ UNCHANGED <<mem, mapped, present, call, vec, cnt, opidx, ret, errno,
                   curcpu>>

\* oldv = READ_ONCE(*v); if (oldv == expectnot) return 1;
LoopRead(t) ==
    /\ pc[t] = "read"
    /\ CanRun(t)
    /\ call[t].v \in mapped
    /\ oldv' = [oldv EXCEPT ![t] = mem[call[t].v]]
    /\ issued' = [issued EXCEPT ![t] = FALSE]
    /\ hist' = [hist EXCEPT ![t] = NoHist]
    /\ IF mem[call[t].v] = call[t].expectnot
       THEN /\ pc' = [pc EXCEPT ![t] = "done"]
            /\ ret' = [ret EXCEPT ![t] = 1]
       ELSE /\ pc' = [pc EXCEPT ![t] = "submit"]
            /\ UNCHANGED ret
    /\ UNCHANGED <<mem, mapped, present, call, vec, cnt, opidx, errno, curcpu>>

\* A slip: the offset is left out of the derived address.
LoopSubmit_NoOffset(t) ==
    /\ pc[t] = "submit"
    /\ CanRun(t)
    /\ cpu_op_cmpeqv_storep_expect_fault(t, call[t].v, oldv[t], oldv[t],
                                         call[t].cpu)
    /\ UNCHANGED <<mem, mapped, present, oldv>>

\* newp = oldv + voffp; ret = cpu_op_cmpeqv_storep_expect_fault(v, oldv, newp, cpu);
LoopSubmit(t) ==
    /\ pc[t] = "submit"
    /\ CanRun(t)
    /\ cpu_op_cmpeqv_storep_expect_fault(t, call[t].v, oldv[t],
                                         oldv[t] + call[t].voffp, call[t].cpu)
    /\ UNCHANGED <<mem, mapped, present, oldv>>

\* A slip: after a failure the stop value is stored into the watched word.
LoopCheck_StoresOnFailure(t) ==
    /\ pc[t] = "chk"
    /\ CanRun(t)
    /\ IF ret[t] = 0
       THEN /\ call' = [call EXCEPT ![t].load = oldv[t]]
            /\ pc' = [pc EXCEPT ![t] = "done"]
            /\ UNCHANGED <<ret, mem>>
       ELSE IF ret[t] > 0
       THEN /\ pc' = [pc EXCEPT ![t] = "read"]
            /\ UNCHANGED <<call, ret, mem>>
       ELSE /\ pc' = [pc EXCEPT ![t] = "done"]
            /\ ret' = [ret EXCEPT ![t] = -1]
            /\ mem' = [mem EXCEPT ![call[t].v] = call[t].expectnot]
            /\ UNCHANGED call
    /\ UNCHANGED <<mapped, present, vec, cnt, opidx, errno, curcpu, oldv,
                   issued, hist>>

\* A slip: *load is stored before ret is examined, whatever the outcome.
LoopCheck_LoadAlways(t) ==
    /\ pc[t] = "chk"
    /\ CanRun(t)
    /\ call' = [call EXCEPT ![t].load = oldv[t]]
    /\ IF ret[t] = 0
       THEN pc' = [pc EXCEPT ![t] = "done"] /\ UNCHANGED ret
       ELSE IF ret[t] > 0
       THEN pc' = [pc EXCEPT ![t] = "read"] /\ UNCHANGED ret
       ELSE pc' = [pc EXCEPT ![t] = "done"] /\ ret' = [ret EXCEPT ![t] = -1]
    /\ UNCHANGED <<mem, mapped, present, vec, cnt, opidx, errno, curcpu, oldv,
                   issued, hist>>

\* A slip: the loop is missing, a mismatch is returned to the caller.
LoopCheck_ReturnsMismatch(t) ==
    /\ pc[t] = "chk"
    /\ CanRun(t)
    /\ IF ret[t] = 0
       THEN /\ call' = [call EXCEPT ![t].load = oldv[t]]
            /\ pc' = [pc EXCEPT ![t] = "done"]
            /\ UNCHANGED ret
       ELSE /\ pc' = [pc EXCEPT ![t] = "done"]
            /\ UNCHANGED <<call, ret>>
    /\ UNCHANGED <<mem, mapped, present, vec, cnt, opidx, errno, curcpu, oldv,
                   issued, hist>>

\* A slip: the loop also goes round again after a recoverable fault.
LoopCheck_RetriesOnFault(t) ==
    /\ pc[t] = "chk"
    /\ CanRun(t)
    /\ IF ret[t] = 0
       THEN /\ call' = [call EXCEPT ![t].load = oldv[t]]
            /\ pc' = [pc EXCEPT ![t] = "done"]
       ELSE IF ret[t] > 0 \/ errno[t] = EAGAIN
       THEN /\ pc' = [pc EXCEPT ![t] = "read"]
            /\ UNCHANGED call
       ELSE /\ pc' = [pc EXCEPT ![t] = "done"]
            /\ UNCHANGED call
    /\ UNCHANGED <<mem, mapped, present, vec, cnt, opidx, ret, errno, curcpu,
                   oldv, issued, hist>>

\* A slip: the loop goes on after every result but success (while (ret)).
LoopCheck_RetriesOnError(t) ==
    /\ pc[t] = "chk"
    /\ CanRun(t)
    /\ IF ret[t] = 0
       THEN /\ call' = [call EXCEPT ![t].load = oldv[t]]
            /\ pc' = [pc EXCEPT ![t] = "done"]
       ELSE /\ pc' = [pc EXCEPT ![t] = "read"]
            /\ UNCHANGED call
    /\ UNCHANGED <<mem, mapped, present, vec, cnt, opidx, ret, errno, curcpu,
                   oldv, issued, hist>>

\* if (!ret) { *load = oldv; return 0; } } while (ret > 0); return -1;
LoopCheck(t) ==
    /\ pc[t] = "chk"
    /\ CanRun(t)
    /\ IF ret[t] = 0
       THEN /\ call' = [call EXCEPT ![t].load = oldv[t]]
            /\ pc' = [pc EXCEPT ![t] = "done"]
            /\ UNCHANGED ret
       ELSE IF ret[t] > 0
       THEN /\ pc' = [pc EXCEPT ![t] = "read"]
            /\ UNCHANGED <<call, ret>>
       ELSE /\ pc' = [pc EXCEPT ![t] = "done"]
            /\ ret' = [ret EXCEPT ![t] = -1]
            /\ UNCHANGED call
    /\ UNCHANGED <<mem, mapped, present, vec, cnt, opidx, errno, curcpu, oldv,
                   issued, hist>>

\* A slip: the store into v2 is missing.
opvec_cmpeqv_storev_storev_NoV2(v, v2) ==
    << CompareEq(1, Mem(v), Frame("expect"), 0, 0),
       Memcpy("CPU_MEMCPY_OP", 1, Mem(v), Frame("newv"), 0, 0) >>

\* The vector of cpu_op_cmpeqv_storev_storev.
opvec_cmpeqv_storev_storev(v, v2) ==
    << CompareEq(1, Mem(v), Frame("expect"), 0, 0),
       Memcpy("CPU_MEMCPY_OP", 1, Mem(v2), Frame("newv2"), 0, 0),
       Memcpy("CPU_MEMCPY_OP", 1, Mem(v), Frame("newv"), 0, 0) >>

cpu_op_cmpeqv_storev_storev(t, v, expect, v2, newv2, newv, cpu) ==
    /\ Enter(t, [NoCall EXCEPT !.fn = "cpu_op_cmpeqv_storev_storev", !.v = v,
                               !.expect = expect, !.v2 = v2, !.newv2 = newv2,
                               !.newv = newv, !.cpu = cpu])
    /\ cpu_opv(t, "cpu_op_cmpeqv_storev_storev", opvec_cmpeqv_storev_storev(v, v2),
               Len(opvec_cmpeqv_storev_storev(v, v2)), cpu, 0)
    /\ UNCHANGED <<mem, mapped, present, oldv>>

\* A slip: the final store into v is a plain copy.
opvec_cmpeqv_storev_mb_storev_Plain(v, v2) ==
    << CompareEq(1, Mem(v), Frame("expect"), 0, 0),
       Memcpy("CPU_MEMCPY_OP", 1, Mem(v2), Frame("newv2"), 0, 0),
       Memcpy("CPU_MEMCPY_OP", 1, Mem(v), Frame("newv"), 0, 0) >>

\* The vector of cpu_op_cmpeqv_storev_mb_storev.
opvec_cmpeqv_storev_mb_storev(v, v2) ==
    << CompareEq(1, Mem(v), Frame("expect"), 0, 0),
       Memcpy("CPU_MEMCPY_OP", 1, Mem(v2), Frame("newv2"), 0, 0),
       Memcpy("CPU_MEMCPY_RELEASE_OP", 1, Mem(v), Frame("newv"), 0, 0) >>

cpu_op_cmpeqv_storev_mb_storev(t, v, expect, v2, newv2, newv, cpu) ==
    /\ Enter(t, [NoCall EXCEPT !.fn = "cpu_op_cmpeqv_storev_mb_storev", !.v = v,
                               !.expect = expect, !.v2 = v2, !.newv2 = newv2,
                               !.newv = newv, !.cpu = cpu])
    /\ cpu_opv(t, "cpu_op_cmpeqv_storev_mb_storev",
               opvec_cmpeqv_storev_mb_storev(v, v2),
               Len(opvec_cmpeqv_storev_mb_storev(v, v2)), cpu, 0)
    /\ UNCHANGED <<mem, mapped, present, oldv>>

\* A slip: the second comparison guards v again instead of v2.
opvec_cmpeqv_cmpeqv_storev_OneGuard(v, v2) ==
    << CompareEq(1, Mem(v), Frame("expect"), 0, 0),
       CompareEq(1, Mem(v), Frame("expect"), 0, 0),
       Memcpy("CPU_MEMCPY_OP", 1, Mem(v), Frame("newv"), 0, 0) >>

\* The vector of cpu_op_cmpeqv_cmpeqv_storev.
opvec_cmpeqv_cmpeqv_storev(v, v2) ==
    << CompareEq(1, Mem(v), Frame("expect"), 0, 0),
       CompareEq(1, Mem(v2), Frame("expect2"), 0, 0),
       Memcpy("CPU_MEMCPY_OP", 1, Mem(v), Frame("newv"), 0, 0) >>

cpu_op_cmpeqv_cmpeqv_storev(t, v, expect, v2, expect2, newv, cpu) ==
    /\ Enter(t, [NoCall EXCEPT !.fn = "cpu_op_cmpeqv_cmpeqv_storev", !.v = v,
                               !.expect = expect, !.v2 = v2, !.expect2 = expect2,
                               !.newv = newv, !.cpu = cpu])
    /\ cpu_opv(t, "cpu_op_cmpeqv_cmpeqv_storev", opvec_cmpeqv_cmpeqv_storev(v, v2),
               Len(opvec_cmpeqv_cmpeqv_storev(v, v2)), cpu, 0)
    /\ UNCHANGED <<mem, mapped, present, oldv>>

\* A slip: the block copy is placed before the comparison that guards it.
opvec_cmpeqv_memcpy_storev_CopyFirst(v, dst, src, len) ==
    << Memcpy("CPU_MEMCPY_OP", len, Mem(dst), Mem(src), 0, 0),
       CompareEq(1, Mem(v), Frame("expect"), 0, 0),
       Memcpy("CPU_MEMCPY_OP", 1, Mem(v), Frame("newv"), 0, 0) >>

\* The vector of cpu_op_cmpeqv_memcpy_storev.
opvec_cmpeqv_memcpy_storev(v, dst, src, len) ==
    << CompareEq(1, Mem(v), Frame("expect"), 0, 0),
       Memcpy("CPU_MEMCPY_OP", len, Mem(dst), Mem(src), 0, 0),
       Memcpy("CPU_MEMCPY_OP", 1, Mem(v), Frame("newv"), 0, 0) >>

cpu_op_cmpeqv_memcpy_storev(t, v, expect, dst, src, len, newv, cpu) ==
    /\ Enter(t, [NoCall EXCEPT !.fn = "cpu_op_cmpeqv_memcpy_storev", !.v = v,
                               !.expect = expect, !.dst = dst, !.src = src,
                               !.len = len, !.newv = newv, !.cpu = cpu])
    /\ cpu_opv(t, "cpu_op_cmpeqv_memcpy_storev",
               opvec_cmpeqv_memcpy_storev(v, dst, src, len),
               Len(opvec_cmpeqv_memcpy_storev(v, dst, src, len)), cpu, 0)
    /\ UNCHANGED <<mem, mapped, present, oldv>>

\* A slip: the release is carried by the block copy, not by the final store.
opvec_cmpeqv_memcpy_mb_storev_ReleaseOnCopy(v, dst, src, len) ==
    << CompareEq(1, Mem(v), Frame("expect"), 0, 0),
       Memcpy("CPU_MEMCPY_RELEASE_OP", len, Mem(dst), Mem(src), 0, 0),
       Memcpy("CPU_MEMCPY_OP", 1, Mem(v), Frame("newv"), 0, 0) >>

\* The vector of cpu_op_cmpeqv_memcpy_mb_storev.
opvec_cmpeqv_memcpy_mb_storev(v, dst, src, len) ==
    << CompareEq(1, Mem(v), Frame("expect"), 0, 0),
       Memcpy("CPU_MEMCPY_OP", len, Mem(dst), Mem(src), 0, 0),
       Memcpy("CPU_MEMCPY_RELEASE_OP", 1, Mem(v), Frame("newv"), 0, 0) >>

cpu_op_cmpeqv_memcpy_mb_storev(t, v, expect, dst, src, len, newv, cpu) ==
    /\ Enter(t, [NoCall EXCEPT !.fn = "cpu_op_cmpeqv_memcpy_mb_storev", !.v = v,
                               !.expect = expect, !.dst = dst, !.src = src,
                               !.len = len, !.newv = newv, !.cpu = cpu])
    /\ cpu_opv(t, "cpu_op_cmpeqv_memcpy_mb_storev",
               opvec_cmpeqv_memcpy_mb_storev(v, dst, src, len),
               Len(opvec_cmpeqv_memcpy_mb_storev(v, dst, src, len)), cpu, 0)
    /\ UNCHANGED <<mem, mapped, present, oldv>>

\* The vector of cpu_op_add.
opvec_add(v, count, len) ==
    << Arith("CPU_ADD_OP", len, Mem(v), count, 0) >>

cpu_op_add(t, v, count, len, cpu) ==
    /\ Enter(t, [NoCall EXCEPT !.fn = "cpu_op_add", !.v = v, !.count = count,
                               !.len = len, !.cpu = cpu])
    /\ cpu_opv(t, "cpu_op_add", opvec_add(v, count, len),
               Len(opvec_add(v, count, len)), cpu, 0)
    /\ UNCHANGED <<mem, mapped, present, oldv>>

\* The vector of cpu_op_add_release.
opvec_add_release(v, count, len) ==
    << Arith("CPU_ADD_RELEASE_OP", len, Mem(v), count, 0) >>

cpu_op_add_release(t, v, count, len, cpu) ==
    /\ Enter(t, [NoCall EXCEPT !.fn = "cpu_op_add_release", !.v = v,
                               !.count = count, !.len = len, !.cpu = cpu])
    /\ cpu_opv(t, "cpu_op_add_release", opvec_add_release(v, count, len),
               Len(opvec_add_release(v, count, len)), cpu, 0)
    /\ UNCHANGED <<mem, mapped, present, oldv>>

\* A slip: the width passed on is that of an int, half a pointer's.
cpu_op_addv_IntWidth(t, v, count, cpu) ==
    cpu_op_add(t, v, count, SizeofIntptr \div 2, cpu)

\* cpu_op_addv: return cpu_op_add(v, count, sizeof(intptr_t), cpu);
cpu_op_addv(t, v, count, cpu) ==
    cpu_op_add(t, v, count, SizeofIntptr, cpu)

\* The caller has its result; the frame of the call is discarded and the
\* caller clears errno.
Finish(t) ==
    /\ pc[t] = "done"
    /\ CanRun(t)
    /\ pc' = [pc EXCEPT ![t] = "idle"]
    /\ call' = [call EXCEPT ![t] = NoCall]
    /\ ret' = [ret EXCEPT ![t] = 0]
    /\ oldv' = [oldv EXCEPT ![t] = 0]
    /\ issued' = [issued EXCEPT ![t] = FALSE]
    /\ hist' = [hist EXCEPT ![t] = NoHist]
    /\ errno' = [errno EXCEPT ![t] = NoErrno]
    /\ curcpu' = [curcpu EXCEPT ![t] = 0]
    /\ UNCHANGED <<mem, mapped, present, vec, cnt, opidx>>

\* ------------------------------------------------------------- environment
\* Another agent, running on CPU c, stores x into the word at a.  It cannot
\* run while a vector is applied on c.
EnvWrite(c, a, x) ==
    /\ InKernel(c) = {}
    /\ a \in mapped
    /\ mem[a] # x
    /\ mem' = [mem EXCEPT ![a] = x]
    /\ hist' = [u \in Threads |-> [hist[u] EXCEPT !.intf = @ \/ pc[u] # "idle"]]
    /\ UNCHANGED <<mapped, present, pc, call, vec, cnt, opidx, ret, errno,
                   curcpu, oldv, issued>>

\* The scheduler moves thread t to CPU c; not while its vector is applied.
Migrate(t, c) ==
    /\ pc[t] \notin {"kernel", "aborted"}
    /\ curcpu[t] # c
    /\ curcpu' = [curcpu EXCEPT ![t] = c]
    /\ UNCHANGED <<mem, mapped, present, pc, call, vec, cnt, opidx, ret, errno,
                   oldv, issued, hist>>

\* Another agent makes the word at a inaccessible (its page is unmapped), or
\* accessible again.
EnvUnmap(a) ==
    /\ a \in mapped
    /\ Cardinality(Addr \ mapped) < MaxUnmapped
    /\ mapped' = mapped \ {a}
    /\ UNCHANGED <<mem, present, pc, call, vec, cnt, opidx, ret, errno, curcpu,
                   oldv, issued, hist>>

EnvMap(a) ==
    /\ a \in Addr \ mapped
    /\ mapped' = mapped \cup {a}
    /\ UNCHANGED <<mem, present, pc, call, vec, cnt, opidx, ret, errno, curcpu,
                   oldv, issued, hist>>

\* ------------------------------------------------------------------ states
\* The scenario of the two words and their observer: the words start as
\* (a1, a2), the guarded calls store (b1, b2) and are pinned to CPU pin; the
\* observer runs on CPU cpu and reads word number first of the two first.
NoObs ==
    [pc |-> "off", cpu |-> 0, first |-> 0, w1 |-> 0, w2 |-> 0,
     a1 |-> 0, a2 |-> 0, b1 |-> 0, b2 |-> 0, pin |-> 0]

\* The heap words 3..NAddr hold fixed, alternating data.
HeapWord(a) == a % 2

InitThreads ==
    /\ mapped = Addr
    /\ pc = [t \in Threads |-> "idle"]
    /\ call = [t \in Threads |-> NoCall]
    /\ vec = [t \in Threads |-> << >>]
    /\ cnt = [t \in Threads |-> 0]
    /\ opidx = [t \in Threads |-> 0]
    /\ ret = [t \in Threads |-> 0]
    /\ errno = [t \in Threads |-> NoErrno]
    /\ curcpu = [t \in Threads |-> 0]
    /\ oldv = [t \in Threads |-> 0]
    /\ issued = [t \in Threads |-> FALSE]
    /\ hist = [t \in Threads |-> NoHist]

\* ---------------------------------------------- the encoders' specification
\* One thread calls the compare-guarded primitives on v (and v2, and a block
\* of the heap), call after call, while other agents on either CPU store
\* into v at any moment of a call.  (Calls that run concurrently are the
\* subject of the specifications further down.)
Caller == CHOOSE t \in Threads : TRUE

Init ==
    /\ InitThreads
    /\ mem \in {m \in [Addr -> Val] :
                  /\ m[V] \in Words /\ m[V2] \in Words
                  /\ \A a \in Addr \ {V, V2} : m[a] = HeapWord(a)}
    /\ present \in BOOLEAN
    /\ obs = NoObs

CallCmpxchg ==
    pc[Caller] = "idle" /\ \E expect \in Words, n \in Words, cpu \in Cpus :
        cpu_op_cmpxchg(Caller, V, expect, 0, n, 1, cpu) /\ UNCHANGED obs
CallCmpeqvStorev ==
    pc[Caller] = "idle" /\ \E expect \in Words, newv \in Words, cpu \in Cpus :
        cpu_op_cmpeqv_storev(Caller, V, expect, newv, cpu) /\ UNCHANGED obs
CallCmpeqvStorevStorev ==
    pc[Caller] = "idle" /\ \E expect \in Words, newv2 \in Words, newv \in Words, cpu \in Cpus :
        cpu_op_cmpeqv_storev_storev(Caller, V, expect, V2, newv2, newv, cpu) /\ UNCHANGED obs
CallCmpeqvStorevMbStorev ==
    pc[Caller] = "idle" /\ \E expect \in Words, newv2 \in Words, newv \in Words, cpu \in Cpus :
        cpu_op_cmpeqv_storev_mb_storev(Caller, V, expect, V2, newv2, newv, cpu) /\ UNCHANGED obs
CallCmpeqvCmpeqvStorev ==
    pc[Caller] = "idle" /\ \E expect \in Words, expect2 \in Words, newv \in Words, cpu \in Cpus :
        cpu_op_cmpeqv_cmpeqv_storev(Caller, V, expect, V2, expect2, newv, cpu) /\ UNCHANGED obs
CallCmpeqvMemcpyStorev ==
    pc[Caller] = "idle" /\ \E expect \in Words, len \in 1..MaxLen, newv \in Words, cpu \in Cpus :
        cpu_op_cmpeqv_memcpy_storev(Caller, V, expect, 3, 4, len, newv, cpu) /\ UNCHANGED obs
CallCmpeqvMemcpyMbStorev ==
    pc[Caller] = "idle" /\ \E expect \in Words, len \in 1..MaxLen, newv \in Words, cpu \in Cpus :
        cpu_op_cmpeqv_memcpy_mb_storev(Caller, V, expect, 3, 4, len, newv, cpu) /\ UNCHANGED obs
Apply == UNCHANGED obs /\ \E t \in Threads : KStep(t)
Return == UNCHANGED obs /\ \E t \in Threads : Finish(t)
OtherStore ==
    /\ pc[Caller] # "idle"
    /\ \E c \in Cpus, x \in Words : EnvWrite(c, V, x) /\ UNCHANGED obs

Next ==
    \/ CallCmpxchg
    \/ CallCmpeqvStorev
    \/ CallCmpeqvStorevStorev
    \/ CallCmpeqvStorevMbStorev
    \/ CallCmpeqvCmpeqvStorev
    \/ CallCmpeqvMemcpyStorev
    \/ CallCmpeqvMemcpyMbStorev
    \/ Apply
    \/ Return
    \/ OtherStore

Spec == Init /\ [][Next]_vars

\* ------------------------------------------------------ the retry loop
\* One thread calls cpu_op_cmpnev_storeoffp_load on v, call after call; v
\* holds the stop value or the address of a node whose successor is the
\* word at offset voffp.  Other agents, on either CPU, store into v and
\* unmap words while the loop runs.  The caller's *load starts as -1.
HeapNext(a) == IF a = NAddr THEN 0 ELSE a + 1
\* What v may hold: a small word (0 is the null address) or a node's address.
Heads == Words \cup {NAddr - 1, NAddr}
\* The loop of the calling thread is running.
InLoop == pc[Caller] \in {"read", "submit", "kernel"}

InitRetry ==
    /\ InitThreads
    /\ present \in BOOLEAN
    /\ mem \in {m \in [Addr -> Val] :
                  m[V] \in Heads /\ \A a \in Addr \ {V} : m[a] = HeapNext(a)}
    /\ obs = NoObs

CallRetry ==
    pc[Caller] = "idle" /\ \E expectnot \in Words, voffp \in 0..MaxOff, cpu \in 0..NCpu :
        cpu_op_cmpnev_storeoffp_load(Caller, V, expectnot, voffp, -1, cpu,
                                     IF cpu \in Cpus THEN cpu ELSE 0)
        /\ UNCHANGED obs
Read == UNCHANGED obs /\ \E t \in Threads : LoopRead(t)
Submit == UNCHANGED obs /\ \E t \in Threads : LoopSubmit(t)
Check == UNCHANGED obs /\ \E t \in Threads : LoopCheck(t)
OtherStoreHead ==
    /\ InLoop
    /\ \E c \in Cpus, x \in Heads : EnvWrite(c, V, x) /\ UNCHANGED obs
\* The fault injection: the watched word, or the address the running
\* iteration derived from the value it read, becomes inaccessible.
OtherUnmap ==
    /\ InLoop
    /\ pc[Caller] # "read"
    /\ \E a \in {V, oldv[Caller] + call[Caller].voffp} : EnvUnmap(a) /\ UNCHANGED obs
OtherMap == InLoop /\ UNCHANGED obs /\ \E a \in Addr : EnvMap(a)

NextRetry ==
    \/ CallRetry
    \/ Read
    \/ Submit
    \/ Apply
    \/ Check
    \/ Return
    \/ OtherStoreHead
    \/ OtherUnmap
    \/ OtherMap

SpecRetry == InitRetry /\ [][NextRetry]_vars

\* ------------------------------------------------ properties of SpecRetry
IsRetry(t) == call[t].fn = "cpu_op_cmpnev_storeoffp_load"
\* cpu_op_cmpnev_storeoffp_load has returned.
Returned(t) == pc[t] = "done" /\ IsRetry(t)
\* The address the running iteration derives from the value it read.
Derived(t) == oldv[t] + call[t].voffp

\* C3: when cpu_op_cmpnev_storeoffp_load returns 0, the comparison of its
\* vector found oldv in v, oldv is not the stop value, the vector's copy set
\* v to the word that was at oldv + voffp at that moment, and *load is oldv;
\* whatever other agents stored into v before, between or after.
C3_Success ==
    /\ [](\A t \in Threads :
            (Returned(t) /\ ret[t] = 0) =>
                /\ call[t].load = oldv[t]
                /\ oldv[t] # call[t].expectnot
                /\ hist[t].seen = oldv[t])
    /\ [][\A t \in Threads :
            (IsRetry(t) /\ pc[t] = "kernel") =>
                /\ (opidx[t] = 1 /\ opidx'[t] = 2) => mem[call[t].v] = oldv[t]
                /\ (pc'[t] = "chk" /\ ret'[t] = 0) =>
                        mem'[call[t].v] = WordAt(Derived(t))]_vars

\* The call has succeeded although another agent changed v between the plain
\* read and the request (and changed it back).
C3_Witness ==
    \E t \in Threads :
        /\ Returned(t) /\ ret[t] = 0 /\ hist[t].pre
        /\ call[t].load = oldv[t]
        /\ mem[call[t].v] = hist[t].srcval /\ hist[t].srcval # oldv[t]

\* The vector of the call ended in a fault it was told to expect.
Recoverable(t) == IsRetry(t) /\ pc[t] \in {"chk", "done"} /\ ret[t] = -1 /\ errno[t] = EAGAIN

\* C4: when the derived address faults as the vector dereferences it, the
\* call has changed no word of memory: v holds what it held when the vector
\* began, unless another agent has stored into it since.
C4_FaultWritesNothing ==
    \A t \in Threads :
        Recoverable(t) =>
            /\ hist[t].chgMem = {}
            /\ ~hist[t].intf => mem[call[t].v] = hist[t].v0

\* The derived address was a mapped word that another agent made
\* inaccessible; the comparison passed, the copy faulted, v is intact.
C4_Witness ==
    \E t \in Threads :
        /\ Returned(t) /\ ret[t] = -1 /\ errno[t] = EAGAIN
        /\ hist[t].fault = "src" /\ hist[t].seen = oldv[t]
        /\ Derived(t) \in Addr \ mapped
        /\ ~hist[t].intf /\ mem[call[t].v] = oldv[t]

\* C5 as stated: after a recoverable fault the caller has the value read
\* from the watched location, through *load.
C5_CarriesValueRead ==
    \A t \in Threads :
        (Returned(t) /\ ret[t] = -1 /\ errno[t] = EAGAIN) => call[t].load = oldv[t]

\* C5, amended: *load receives the value read only when the call returns 0;
\* after a recoverable fault (and after every other return that is not 0)
\* *load is what the caller had put there, and the call returns -1.
C5_LoadOnlyOnSuccess ==
    \A t \in Threads :
        Returned(t) =>
            /\ ret[t] = 0 => call[t].load = oldv[t]
            /\ ret[t] # 0 => call[t].load = -1
            /\ hist[t].fault = "src" => ret[t] = -1

\* A recoverable fault has been returned and *load is untouched, though the
\* value read was a different one.
C5_Witness ==
    \E t \in Threads :
        /\ Returned(t) /\ ret[t] = -1 /\ errno[t] = EAGAIN
        /\ hist[t].fault = "src"
        /\ call[t].load = -1 /\ oldv[t] # call[t].load

\* The request of the call failed for another reason than a recoverable fault.
OtherFailure(t) ==
    \/ ~present
    \/ call[t].cpu \notin Cpus
    \/ hist[t].fault \in {"a", "b", "dst"}

\* C6 as stated: the value returned for a recoverable fault on the copy
\* source (-1) is returned for no other outcome.
C6_DistinctReturnValue ==
    \A t \in Threads :
        (Returned(t) /\ ret[t] = -1) => hist[t].fault = "src"

\* C6, amended: the call returns 0, 1 or -1; a recoverable fault on the copy
\* source gives -1 with errno EAGAIN, and so does nothing else; the other
\* failures give -1 too, with another errno.
C6_DistinctByErrno ==
    \A t \in Threads :
        Returned(t) =>
            /\ ret[t] \in {0, 1, -1}
            /\ hist[t].fault = "src" => (ret[t] = -1 /\ errno[t] = EAGAIN)
            /\ (ret[t] = -1 /\ errno[t] = EAGAIN) => hist[t].fault = "src"
            /\ (issued[t] /\ OtherFailure(t)) => (ret[t] = -1 /\ errno[t] # EAGAIN)

\* A recoverable fault on a derived address that is no address at all.
C6_Witness ==
    \E t \in Threads :
        /\ Returned(t) /\ ret[t] = -1 /\ errno[t] = EAGAIN
        /\ hist[t].fault = "src" /\ Derived(t) \notin Addr

\* C7: the loop submits only a value that is not the stop value; and when
\* the value read is the stop value the call returns 1 with no request made
\* since that read, no word changed and *load untouched.
C7_SentinelShortCircuit ==
    \A t \in Threads :
        IsRetry(t) =>
            /\ pc[t] \in {"submit", "kernel", "chk"} => oldv[t] # call[t].expectnot
            /\ (pc[t] = "done" /\ oldv[t] = call[t].expectnot) =>
                    /\ ret[t] = 1
                    /\ ~issued[t]
                    /\ hist[t] = NoHist
                    /\ call[t].load = -1
            /\ (pc[t] = "done" /\ ret[t] = 1) => oldv[t] = call[t].expectnot

\* The call has returned 1 on reading the stop value.
C7_Witness ==
    \E t \in Threads :
        /\ Returned(t) /\ ret[t] = 1
        /\ oldv[t] = call[t].expectnot /\ mem[call[t].v] = call[t].expectnot
        /\ ~issued[t] /\ call[t].load = -1

\* C8: the call returns 0, 1 or -1, and a positive return is never the
\* mismatch of a vector (no request was made since the read that found the
\* stop value); a mismatch sends the loop back to the plain read, and every
\* request follows a read made after the previous request.
C8_MismatchRestarts ==
    /\ [](\A t \in Threads :
            /\ Returned(t) =>
                  /\ ret[t] \in {0, 1, -1}
                  /\ ret[t] > 0 => (~issued[t] /\ oldv[t] = call[t].expectnot)
            /\ (IsRetry(t) /\ pc[t] = "submit") =>
                  (~issued[t] /\ oldv[t] # call[t].expectnot))
    /\ [][\A t \in Threads :
            (IsRetry(t) /\ pc[t] = "chk" /\ ret[t] > 0) =>
                pc'[t] \in {"chk", "read"}]_vars

\* A mismatch has sent the loop back to its plain read.
C8_Witness ==
    \E t \in Threads :
        IsRetry(t) /\ pc[t] = "read" /\ ret[t] > 0 /\ issued[t]

\* --------------------------------------------------- requests made directly
\* A thread hands cpu_opv a vector of cpuopcnt stores of newv into v, with
\* counts up to one beyond the maximum, any CPU id (NCpu is not one) and
\* either flag.  The caller notes in old what v held before the call.
opvec_stores(v, cpuopcnt) ==
    [i \in 1..cpuopcnt |-> Memcpy("CPU_MEMCPY_OP", 1, Mem(v), Frame("newv"), 0, 0)]

cpu_opv_call(t, v, newv, cpuopcnt, cpu, flags) ==
    /\ Enter(t, [NoCall EXCEPT !.fn = "cpu_opv", !.v = v, !.newv = newv,
                               !.old = mem[v], !.cpu = cpu,
                               !.cpuopcnt = cpuopcnt, !.flags = flags])
    /\ cpu_opv(t, "cpu_opv", opvec_stores(v, cpuopcnt), cpuopcnt, cpu, flags)
    /\ UNCHANGED <<mem, mapped, present, oldv>>

CallCpuOpv ==
    pc[Caller] = "idle" /\
        \E newv \in Words, cpuopcnt \in 0..(CPU_OP_VEC_LEN_MAX + 1),
           cpu \in 0..NCpu, flags \in {0, CPU_OP_NR_FLAG} :
            cpu_opv_call(Caller, V, newv, cpuopcnt, cpu, flags) /\ UNCHANGED obs

InitSubmit ==
    /\ InitThreads
    /\ present \in BOOLEAN
    /\ mem \in {m \in [Addr -> Val] :
                  m[V] \in Words /\ \A a \in Addr \ {V} : m[a] = HeapWord(a)}
    /\ obs = NoObs

NextSubmit ==
    \/ CallCpuOpv
    \/ Apply
    \/ Return

SpecSubmit == InitSubmit /\ [][NextSubmit]_vars

\* A direct request with one operation more than the maximum has returned.
Oversized(t) ==
    /\ pc[t] = "done" /\ call[t].fn = "cpu_opv"
    /\ call[t].cpuopcnt = CPU_OP_VEC_LEN_MAX + 1
    /\ present /\ call[t].flags = 0

\* C10 as stated: the oversized vector is refused with EINVAL, nothing of it
\* is applied, and the request never reaches the substrate.
C10_RejectedBySubmitter ==
    \A t \in Threads :
        Oversized(t) =>
            /\ ret[t] = -1 /\ errno[t] = EINVAL
            /\ ~hist[t].applied /\ mem[call[t].v] = call[t].old
            /\ ~issued[t]

\* C10, amended: cpu_opv hands the oversized vector to the system call like
\* any other; the system call refuses it with EINVAL and applies none of
\* its operations, so v holds what it held before.
C10_RejectedBySubstrate ==
    \A t \in Threads :
        Oversized(t) =>
            /\ ret[t] = -1 /\ errno[t] = EINVAL
            /\ ~hist[t].applied /\ mem[call[t].v] = call[t].old
            /\ issued[t]

\* An oversized vector of stores that would have changed v has been refused.
C10_Witness ==
    \E t \in Threads :
        /\ Oversized(t) /\ call[t].cpu \in Cpus
        /\ ret[t] = -1 /\ errno[t] = EINVAL
        /\ call[t].newv # mem[call[t].v]

\* ------------------------------------------------------- release ordering
\* A writer thread stores into the data word with a plain store, then calls
\* a release-carrying primitive on v.  A reader on another CPU does not see
\* the writer's stores at once: each store reaches it at some later moment.
\* Plain stores reach it in any order; a store that carries release reaches
\* it only after every store the writer made before it.  The reader reads v
\* with an acquiring read and, later, the other words.
DATA == NAddr       \* the word the writer stores into before its call
BLOCK == 2          \* where the block copy goes; its source is the word 4

NoPub ==
    [stage |-> "prep",      \* the writer: "prep", then "call", then "called"
     init |-> << >>,        \* the memory before the writer's first store
     vis |-> {},            \* addresses whose store has reached the reader
     pre |-> << >>,         \* the writer's stores before the call, in order
     pc |-> "start",        \* the reader: "start", "acq", "got"
     rv |-> -1,             \* what the acquiring read of v returned
     seen |-> << >>]        \* what the later reads returned, by address

\* All the writer's stores so far, in program order.
Stores == obs.pre \o hist[Caller].wr
\* What the reader finds at address a.
View(a) == IF a \in obs.vis THEN mem[a] ELSE obs.init[a]

WriterPlainStore ==
    /\ obs.stage = "prep"
    /\ \E x \in Words \ {mem[DATA]} :
          /\ mem' = [mem EXCEPT ![DATA] = x]
          /\ obs' = [obs EXCEPT !.stage = "call",
                                !.pre = << [a |-> DATA, rel |-> FALSE] >>]
    /\ UNCHANGED <<mapped, present, pc, call, vec, cnt, opidx, ret, errno,
                   curcpu, oldv, issued, hist>>

CallReleaseStorev ==
    obs.stage = "call" /\
        \E expect \in Words, newv2 \in Words, newv \in Words \ {mem[V]}, cpu \in Cpus :
            /\ cpu_op_cmpeqv_storev_mb_storev(Caller, V, expect, BLOCK, newv2, newv, cpu)
            /\ obs' = [obs EXCEPT !.stage = "called"]
CallReleaseMemcpy ==
    obs.stage = "call" /\
        \E expect \in Words, len \in 1..MaxLen, newv \in Words \ {mem[V]}, cpu \in Cpus :
            /\ cpu_op_cmpeqv_memcpy_mb_storev(Caller, V, expect, BLOCK, 4, len, newv, cpu)
            /\ obs' = [obs EXCEPT !.stage = "called"]
CallReleaseAdd ==
    obs.stage = "call" /\
        \E count \in 1..MaxWord, cpu \in Cpus :
            /\ cpu_op_add_release(Caller, V, count, SizeofIntptr, cpu)
            /\ obs' = [obs EXCEPT !.stage = "called"]

\* Store number i of the writer reaches the reader.
Propagate ==
    \E i \in 1..Len(Stores) :
        /\ Stores[i].a \notin obs.vis
        /\ Stores[i].rel => \A j \in 1..(i - 1) : Stores[j].a \in obs.vis
        /\ obs' = [obs EXCEPT !.vis = @ \cup {Stores[i].a}]
        /\ UNCHANGED <<mem, mapped, present, pc, call, vec, cnt, opidx, ret,
                       errno, curcpu, oldv, issued, hist>>

ReaderAcquire ==
    /\ obs.pc = "start"
    /\ obs' = [obs EXCEPT !.pc = "acq", !.rv = View(V)]
    /\ UNCHANGED <<mem, mapped, present, pc, call, vec, cnt, opidx, ret, errno,
                   curcpu, oldv, issued, hist>>

ReaderRead ==
    /\ obs.pc = "acq"
    /\ obs' = [obs EXCEPT !.pc = "got", !.seen = [a \in Addr |-> View(a)]]
    /\ UNCHANGED <<mem, mapped, present, pc, call, vec, cnt, opidx, ret, errno,
                   curcpu, oldv, issued, hist>>

InitRelease ==
    /\ InitThreads
    /\ present = TRUE
    /\ mem \in {m \in [Addr -> Val] :
                  m[V] \in Words /\ \A a \in Addr \ {V} : m[a] = HeapWord(a)}
    /\ obs = [NoPub EXCEPT !.init = mem]

NextRelease ==
    \/ WriterPlainStore
    \/ CallReleaseStorev
    \/ CallReleaseMemcpy
    \/ CallReleaseAdd
    \/ Apply
    \/ Propagate
    \/ ReaderAcquire
    \/ ReaderRead

SpecRelease == InitRelease /\ [][NextRelease]_vars

\* The addresses the writer stored into before its store into v.
BeforePublish ==
    {Stores[j].a : j \in {k \in 1..Len(Stores) :
                            \E i \in (k + 1)..Len(Stores) : Stores[i].a = V}}

\* C11: a reader whose acquiring read of v returned the value a
\* release-carrying primitive published finds, in its later reads, every
\* store the writer made before the call and the earlier stores of the
\* same vector.
C11_ReleasePublishes ==
    (obs.pc = "got" /\ obs.rv # obs.init[V]) =>
        \A a \in BeforePublish : obs.seen[a] = mem[a]

\* The reader has acquired the published value and has read the data word
\* and the second word as the writer left them, both changed by the writer.
C11_Witness ==
    /\ obs.pc = "got" /\ obs.rv # obs.init[V]
    /\ call[Caller].fn = "cpu_op_cmpeqv_storev_mb_storev"
    /\ {DATA, BLOCK} \subseteq BeforePublish
    /\ obs.seen[DATA] # obs.init[DATA] /\ obs.seen[BLOCK] # obs.init[BLOCK]

\* ------------------------------------------------------------------ faults
\* One thread makes one call of any primitive, while another agent makes
\* one of the words the calls name inaccessible, or accessible again, at any
\* moment before or during the call.
CallAdd ==
    pc[Caller] = "idle" /\ \E count \in 1..MaxWord, cpu \in Cpus :
        cpu_op_add(Caller, V, count, SizeofIntptr, cpu) /\ UNCHANGED obs
CallAddRelease ==
    pc[Caller] = "idle" /\ \E count \in 1..MaxWord, cpu \in Cpus :
        cpu_op_add_release(Caller, V, count, SizeofIntptr, cpu) /\ UNCHANGED obs
CallAddv ==
    pc[Caller] = "idle" /\ \E count \in 1..MaxWord, cpu \in Cpus :
        cpu_op_addv(Caller, V, count, cpu) /\ UNCHANGED obs
CallRetryPinned ==
    pc[Caller] = "idle" /\ \E expectnot \in Words, voffp \in 0..MaxOff, cpu \in Cpus :
        /\ cpu_op_cmpnev_storeoffp_load(Caller, V, expectnot, voffp, -1, cpu, cpu)
        /\ UNCHANGED obs

\* The words the calls of this scenario name.
Named == {V, V2, 3, 4}
FaultUnmap == \E a \in Named : EnvUnmap(a) /\ UNCHANGED obs
FaultMap == \E a \in Named : EnvMap(a) /\ UNCHANGED obs

InitFault ==
    /\ InitThreads
    /\ present = TRUE
    /\ mem \in {m \in [Addr -> Val] :
                  m[V] \in Words /\ \A a \in Addr \ {V} : m[a] = HeapWord(a)}
    /\ obs = NoObs

NextFault ==
    \/ CallCmpxchg
    \/ CallCmpeqvStorev
    \/ CallCmpeqvStorevStorev
    \/ CallCmpeqvStorevMbStorev
    \/ CallCmpeqvCmpeqvStorev
    \/ CallCmpeqvMemcpyStorev
    \/ CallCmpeqvMemcpyMbStorev
    \/ CallAdd
    \/ CallAddRelease
    \/ CallAddv
    \/ CallRetryPinned
    \/ Read
    \/ Submit
    \/ Check
    \/ Apply
    \/ FaultUnmap
    \/ FaultMap

SpecFault == InitFault /\ [][NextFault]_vars

\* UnexpectedFault: an operand that was not marked expect_fault faulted.
UnexpectedFault(t) == hist[t].fault # "" /\ ~hist[t].marked

\* C12 as stated: an unexpected fault is fatal, the call never returns it to
\* its caller.
C12_Fatal ==
    \A t \in Threads : ~(pc[t] = "done" /\ UnexpectedFault(t))

\* C12, amended: after an unexpected fault the call returns -1 to its caller
\* with errno EFAULT, which is neither success, nor a mismatch, nor the
\* errno of a recoverable fault; and the retry loop does not go round again.
C12_ReturnedNotRetried ==
    /\ [](\A t \in Threads :
            (pc[t] \in {"chk", "done"} /\ UnexpectedFault(t)) =>
                (ret[t] = -1 /\ errno[t] = EFAULT))
    /\ [][\A t \in Threads :
            (pc[t] = "chk" /\ UnexpectedFault(t)) => pc'[t] \in {"chk", "done"}]_vars

\* The retry loop has returned -1 after a fault on the watched word itself.
C12_Witness ==
    \E t \in Threads :
        /\ Returned(t) /\ UnexpectedFault(t) /\ hist[t].fault = "a"
        /\ ret[t] = -1 /\ errno[t] = EFAULT

\* ----------------------------------------------------------------- pinning
\* A thread asks which CPU it is on, keeps the answer, and later makes a
\* compare-and-store pinned to that CPU, again and again; the scheduler may
\* move it to another CPU at any moment in between.  obs.cpu[t] is the answer thread t keeps
\* (-1: none yet), obs.moved[t] whether it was moved since.
NoPin == [cpu |-> [t \in Threads |-> -1], moved |-> [t \in Threads |-> FALSE]]

\* sched_getcpu() gives the CPU the thread is on, or fails.
QueryCpu ==
    \E t \in {Caller} : obs.cpu[t] = -1 /\ CanRun(t) /\
        \E r \in {curcpu[t], -1} :
            cpu_op_get_current_cpu(t, r) /\ UNCHANGED obs
\* The thread keeps the answer of cpu_op_get_current_cpu.
KeepCpu ==
    \E t \in {Caller} :
        /\ pc[t] = "done" /\ call[t].fn = "cpu_op_get_current_cpu"
        /\ CanRun(t)
        /\ obs' = [obs EXCEPT !.cpu[t] = ret[t]]
        /\ pc' = [pc EXCEPT ![t] = "idle"]
        /\ call' = [call EXCEPT ![t] = NoCall]
        /\ ret' = [ret EXCEPT ![t] = 0]
        /\ UNCHANGED <<mem, mapped, present, vec, cnt, opidx, errno, curcpu,
                       oldv, issued, hist>>
Move ==
    \E t \in {Caller}, c \in Cpus :
        /\ Migrate(t, c)
        /\ obs' = [obs EXCEPT !.moved[t] = @ \/ obs.cpu[t] # -1]
PinnedCall ==
    \E t \in {Caller} : (pc[t] = "idle" /\ obs.cpu[t] # -1 /\ CanRun(t)) /\
        \E expect \in Words, newv \in Words :
            cpu_op_cmpeqv_storev(t, V, expect, newv, obs.cpu[t]) /\ UNCHANGED obs
\* The thread takes the result of its pinned call and starts over.
PinnedReturn ==
    \E t \in {Caller} :
        /\ pc[t] = "done" /\ call[t].fn = "cpu_op_cmpeqv_storev"
        /\ CanRun(t)
        /\ obs' = [obs EXCEPT !.cpu[t] = -1, !.moved[t] = FALSE]
        /\ pc' = [pc EXCEPT ![t] = "idle"]
        /\ call' = [call EXCEPT ![t] = NoCall]
        /\ ret' = [ret EXCEPT ![t] = 0]
        /\ issued' = [issued EXCEPT ![t] = FALSE]
        /\ hist' = [hist EXCEPT ![t] = NoHist]
        /\ errno' = [errno EXCEPT ![t] = NoErrno]
        /\ UNCHANGED <<mem, mapped, present, vec, cnt, opidx, curcpu, oldv>>

InitPin ==
    /\ InitThreads
    /\ present \in BOOLEAN
    /\ mem \in {m \in [Addr -> Val] :
                  m[V] \in Words /\ \A a \in Addr \ {V} : m[a] = HeapWord(a)}
    /\ obs = NoPin

NextPin ==
    \/ QueryCpu
    \/ KeepCpu
    \/ Move
    \/ PinnedCall
    \/ Apply
    \/ PinnedReturn

SpecPin == InitPin /\ [][NextPin]_vars

\* C13: while the vector of a pinned call is applied, the thread runs on
\* the CPU id the call was given, which is the one the thread had asked
\* for, wherever the scheduler moved the thread in between.
C13_AppliedOnPassedCpu ==
    \A t \in Threads :
        (call[t].fn = "cpu_op_cmpeqv_storev" /\ pc[t] = "kernel") =>
            /\ call[t].cpu = obs.cpu[t]
            /\ curcpu[t] = call[t].cpu

\* A thread was moved to another CPU after asking, and the vector of its
\* call is being applied on the CPU it had asked for.
C13_Witness ==
    \E t \in Threads :
        /\ call[t].fn = "cpu_op_cmpeqv_storev" /\ pc[t] = "kernel"
        /\ obs.moved[t] /\ curcpu[t] = obs.cpu[t]

\* ------------------------------------------------------------------- probe
\* Every thread calls cpu_op_available, again and again and at the same
\* time as the others, while the threads also make pinned compare-and-store
\* calls.  obs.verdicts collects every verdict a call has returned.
NoProbe == [verdicts |-> {}]

IsProbe(t) == call[t].fn = "cpu_op_available"

ProbeCall == \E t \in Threads : cpu_op_available(t) /\ UNCHANGED obs
ProbeCheck == \E t \in Threads : cpu_op_available_ret(t) /\ UNCHANGED obs
ProbeReturn ==
    \E t \in Threads :
        /\ IsProbe(t)
        /\ Finish(t)
        /\ obs' = [obs EXCEPT !.verdicts = @ \cup {ret[t]}]
ProbeOtherCall ==
    pc[Caller] = "idle" /\ \E expect \in Words, newv \in Words, cpu \in Cpus :
        cpu_op_cmpeqv_storev(Caller, V, expect, newv, cpu) /\ UNCHANGED obs
ProbeOtherReturn ==
    \E t \in Threads : ~IsProbe(t) /\ Finish(t) /\ UNCHANGED obs

InitProbe ==
    /\ InitThreads
    /\ present \in BOOLEAN
    /\ mem \in {m \in [Addr -> Val] :
                  m[V] \in Words /\ \A a \in Addr \ {V} : m[a] = HeapWord(a)}
    /\ obs = NoProbe

NextProbe ==
    \/ ProbeCall
    \/ ProbeCheck
    \/ ProbeReturn
    \/ ProbeOtherCall
    \/ Apply
    \/ ProbeOtherReturn

SpecProbe == InitProbe /\ [][NextProbe]_vars

\* C14: cpu_op_available makes a request of no operation with the probe
\* flag; it returns 1 exactly when the raw result is not negative and 0
\* otherwise; no step of it changes memory; and all its calls, one after
\* the other or at the same time, return the same verdict.
C14_ProbeIdempotent ==
    /\ [](\A t \in Threads :
            /\ (IsProbe(t) /\ pc[t] = "avail") =>
                  /\ issued[t] /\ ~hist[t].applied
                  /\ call[t].cpuopcnt = 0 /\ call[t].flags = CPU_OP_NR_FLAG
                  /\ ret[t] >= 0 <=> present
            /\ (IsProbe(t) /\ pc[t] = "done") =>
                  /\ ret[t] = (IF present THEN 1 ELSE 0)
                  /\ \A x \in obs.verdicts : x = ret[t])
    /\ [][\A t \in Threads :
            /\ (IsProbe(t) /\ pc[t] = "avail" /\ pc'[t] = "done") =>
                  ret'[t] = (IF ret[t] >= 0 THEN 1 ELSE 0)
            /\ (call'[t].fn = "cpu_op_available" /\ pc'[t] # pc[t]) =>
                  mem' = mem]_vars

\* A call has returned "present" after an earlier call did, while the vector
\* of another thread is being applied.
C14_Witness ==
    \E t \in Threads :
        /\ IsProbe(t) /\ pc[t] = "done" /\ ret[t] = 1
        /\ obs.verdicts = {1}
        /\ \E u \in Threads : pc[u] = "kernel"

\* ------------------------------------------------------ the primitive table
\* The table of section 4.2 of the specification: for each primitive, the
\* operations of its vector in order.  An entry names the kind of the
\* operation, its two operands and its length.
TabOp(kind, x, y, len) == [kind |-> kind, x |-> x, y |-> y, len |-> len]

\* The vector the table lists for the call with frame c.
Table(c) ==
    CASE c.fn = "cpu_op_cmpxchg" ->
           << TabOp("Compare", Mem(c.v), Frame("expect"), c.len),
              TabOp("Copy", Mem(c.v), Frame("n"), c.len) >>
      [] c.fn = "cpu_op_cmpeqv_storev" ->
           << TabOp("Compare", Mem(c.v), Frame("expect"), 1),
              TabOp("Copy", Mem(c.v), Frame("newv"), 1) >>
      [] c.fn = "cpu_op_add" ->
           << TabOp("Add", Mem(c.v), c.count, c.len) >>
      [] c.fn = "cpu_op_add_release" ->
           << TabOp("AddRelease", Mem(c.v), c.count, c.len) >>
      [] c.fn = "cpu_op_cmpeqv_storev_storev" ->
           << TabOp("Compare", Mem(c.v), Frame("expect"), 1),
              TabOp("Copy", Mem(c.v2), Frame("newv2"), 1),
              TabOp("Copy", Mem(c.v), Frame("newv"), 1) >>
      [] c.fn = "cpu_op_cmpeqv_storev_mb_storev" ->
           << TabOp("Compare", Mem(c.v), Frame("expect"), 1),
              TabOp("Copy", Mem(c.v2), Frame("newv2"), 1),
              TabOp("CopyRelease", Mem(c.v), Frame("newv"), 1) >>
      [] c.fn = "cpu_op_cmpeqv_cmpeqv_storev" ->
           << TabOp("Compare", Mem(c.v), Frame("expect"), 1),
              TabOp("Compare", Mem(c.v2), Frame("expect2"), 1),
              TabOp("Copy", Mem(c.v), Frame("newv"), 1) >>
      [] c.fn = "cpu_op_cmpeqv_memcpy_storev" ->
           << TabOp("Compare", Mem(c.v), Frame("expect"), 1),
              TabOp("Copy", Mem(c.dst), Mem(c.src), c.len),
              TabOp("Copy", Mem(c.v), Frame("newv"), 1) >>
      [] c.fn = "cpu_op_cmpeqv_memcpy_mb_storev" ->
           << TabOp("Compare", Mem(c.v), Frame("expect"), 1),
              TabOp("Copy", Mem(c.dst), Mem(c.src), c.len),
              TabOp("CopyRelease", Mem(c.v), Frame("newv"), 1) >>
      [] OTHER -> << >>

\* The primitives the table lists with a vector.
Listed(t) == Table(call[t]) # << >>

\* A struct cpu_op in the terms of the table.
AsTabOp(op) ==
    CASE op.op = "CPU_COMPARE_EQ_OP" -> TabOp("Compare", op.a, op.b, op.len)
      [] op.op = "CPU_MEMCPY_OP" -> TabOp("Copy", op.dst, op.src, op.len)
      [] op.op = "CPU_MEMCPY_RELEASE_OP" -> TabOp("CopyRelease", op.dst, op.src, op.len)
      [] op.op = "CPU_ADD_OP" -> TabOp("Add", op.p, op.count, op.len)
      [] op.op = "CPU_ADD_RELEASE_OP" -> TabOp("AddRelease", op.p, op.count, op.len)
\* The vector thread t has handed to the system call, in those terms.
Submitted(t) == [i \in 1..Len(vec[t]) |-> AsTabOp(vec[t][i])]

\* The release-carrying operations of thread t's vector are its last
\* operation only, which stores into v (or adds to it).
ReleaseLast(t) ==
    \A i \in 1..Len(vec[t]) :
        Submitted(t)[i].kind \in {"CopyRelease", "AddRelease"} =>
            (i = Len(vec[t]) /\ Submitted(t)[i].x = Mem(call[t].v))

\* C15 as stated: every primitive of the table submits exactly the vector
\* listed for it.
C15_VectorsAsListed ==
    \A t \in Threads :
        (pc[t] = "kernel" /\ Listed(t)) =>
            (Submitted(t) = Table(call[t]) /\ cnt[t] = Len(vec[t]) /\ ReleaseLast(t))

\* C15, amended: every primitive of the table submits exactly the vector
\* listed for it, except cpu_op_cmpxchg, whose vector is the listed one
\* preceded by a copy of v into the caller's old buffer; a release-carrying
\* operation is always the last one and acts on v.
C15_VectorsButCmpxchg ==
    \A t \in Threads :
        (pc[t] = "kernel" /\ Listed(t)) =>
            /\ Submitted(t) =
                 IF call[t].fn = "cpu_op_cmpxchg"
                 THEN << TabOp("Copy", Frame("old"), Mem(call[t].v), call[t].len) >>
                        \o Table(call[t])
                 ELSE Table(call[t])
            /\ cnt[t] = Len(vec[t])
            /\ ReleaseLast(t)

\* The vector of cpu_op_cmpxchg is under way: its first operation, the copy
\* into old, has been applied and the comparison comes next.
C15_Witness ==
    \E t \in Threads :
        /\ pc[t] = "kernel" /\ call[t].fn = "cpu_op_cmpxchg"
        /\ opidx[t] = 2 /\ Len(vec[t]) = 3
        /\ Submitted(t)[2].kind = "Compare"

\* ------------------------------------------------------- the double guard
\* One thread calls cpu_op_cmpeqv_cmpeqv_storev on v and v2, call after
\* call, while other agents on any CPU store into v and v2.  A store made
\* while the vector is applied comes from another CPU; obs.cross notes it.
NoDouble == [cross |-> FALSE]

DoubleCall ==
    pc[Caller] = "idle" /\ \E expect \in Words, expect2 \in Words, newv \in Words, cpu \in Cpus :
        /\ cpu_op_cmpeqv_cmpeqv_storev(Caller, V, expect, V2, expect2, newv, cpu)
        /\ obs' = NoDouble
DoubleStore ==
    /\ pc[Caller] # "idle"
    /\ \E c \in Cpus, a \in {V, V2}, x \in Words :
          /\ EnvWrite(c, a, x)
          /\ obs' = [obs EXCEPT !.cross = @ \/ pc[Caller] = "kernel"]
DoubleReturn == Finish(Caller) /\ obs' = NoDouble

InitDouble ==
    /\ InitThreads
    /\ present = TRUE
    /\ mem \in {m \in [Addr -> Val] :
                  /\ m[V] \in Words /\ m[V2] \in Words
                  /\ \A a \in Addr \ {V, V2} : m[a] = HeapWord(a)}
    /\ obs = NoDouble

NextDouble ==
    \/ DoubleCall
    \/ Apply
    \/ DoubleStore
    \/ DoubleReturn

SpecDouble == InitDouble /\ [][NextDouble]_vars

IsDouble(t) == call[t].fn = "cpu_op_cmpeqv_cmpeqv_storev"
\* Both comparisons of thread t's vector were evaluated and passed.
BothGuardsHeld(t) ==
    /\ Len(hist[t].cmps) = 2
    /\ hist[t].cmps[1] = call[t].expect
    /\ hist[t].cmps[2] = call[t].expect2

\* C16: cpu_op_cmpeqv_cmpeqv_storev returns 0 and has stored newv into v
\* exactly when its two comparisons found *v = expect and *v2 = expect2,
\* which, with no store from another CPU while the vector was applied, is
\* what the two words held when the vector began; otherwise it returns the
\* index of the comparison that failed and has stored nothing; and it never
\* stores into v2.
C16_BothGuards ==
    \A t \in Threads :
        (IsDouble(t) /\ pc[t] = "done") =>
            /\ ret[t] = 0 <=> BothGuardsHeld(t)
            /\ ret[t] = 0 =>
                  /\ hist[t].wr = << [a |-> call[t].v, rel |-> FALSE] >>
                  /\ hist[t].srcval = call[t].newv
                  /\ ~hist[t].intf => mem[call[t].v] = call[t].newv
            /\ ret[t] # 0 =>
                  /\ ret[t] \in {1, 2}
                  /\ hist[t].wr = << >>
                  /\ ~hist[t].intf => mem[call[t].v] = hist[t].v0
            /\ \A i \in 1..Len(hist[t].wr) : hist[t].wr[i].a # call[t].v2
            /\ ~obs.cross =>
                  (ret[t] = 0 <=> (hist[t].v0 = call[t].expect
                                    /\ hist[t].v20 = call[t].expect2))

\* The first guard held, the second failed: the call has reported the
\* mismatch and v is as it was.
C16_Witness ==
    \E t \in Threads :
        /\ IsDouble(t) /\ pc[t] = "done" /\ ret[t] = 2
        /\ hist[t].v0 = call[t].expect /\ hist[t].v20 # call[t].expect2
        /\ call[t].newv # hist[t].v0 /\ mem[call[t].v] = hist[t].v0
        /\ ~obs.cross

\* ------------------------------------------- termination of the retry loop
\* One thread calls cpu_op_cmpnev_storeoffp_load, call after call; other
\* agents store into v at most MaxWrites times during a call.  The calling
\* thread keeps running and the substrate completes every request (the
\* fairness conditions).  obs counts, for the running call, the loop bodies
\* begun and the stores of the other agents.
NoLive == [iters |-> 0, writes |-> 0]

LiveCall ==
    pc[Caller] = "idle" /\ \E expectnot \in Words, voffp \in 0..MaxOff, cpu \in 0..NCpu :
        /\ cpu_op_cmpnev_storeoffp_load(Caller, V, expectnot, voffp, -1, cpu,
                                        IF cpu \in Cpus THEN cpu ELSE 0)
        /\ obs' = NoLive
LiveRead == LoopRead(Caller) /\ obs' = [obs EXCEPT !.iters = @ + 1]
LiveSubmit == LoopSubmit(Caller) /\ UNCHANGED obs
LiveCheck == LoopCheck(Caller) /\ UNCHANGED obs
LiveReturn == Finish(Caller) /\ obs' = NoLive
LiveStore ==
    /\ InLoop
    /\ obs.writes < MaxWrites
    /\ \E c \in Cpus, x \in Heads :
          EnvWrite(c, V, x) /\ obs' = [obs EXCEPT !.writes = @ + 1]

NextLive ==
    \/ LiveCall
    \/ LiveRead
    \/ LiveSubmit
    \/ Apply
    \/ LiveCheck
    \/ LiveReturn
    \/ LiveStore

InitLive ==
    /\ InitThreads
    /\ present \in BOOLEAN
    /\ mem \in {m \in [Addr -> Val] :
                  m[V] \in Heads /\ \A a \in Addr \ {V} : m[a] = HeapNext(a)}
    /\ obs = NoLive

SpecLive ==
    /\ InitLive
    /\ [][NextLive]_vars
    /\ WF_vars(LiveRead)
    /\ WF_vars(LiveSubmit)
    /\ WF_vars(Apply)
    /\ WF_vars(LiveCheck)

\* C17: with finitely many stores by other agents and every request
\* completed, a call of cpu_op_cmpnev_storeoffp_load returns; a mismatch,
\* the only cause of another loop body, follows a store into v made since
\* the plain read, so the loop bodies are at most one more than the stores,
\* and exactly one with no store.
C17_LoopTerminates ==
    /\ (pc[Caller] \in {"read", "submit", "kernel", "chk"}) ~> (pc[Caller] = "done")
    /\ [](obs.iters <= obs.writes + 1)
    /\ []((pc[Caller] = "chk" /\ ret[Caller] > 0) =>
              (hist[Caller].pre \/ hist[Caller].intf))
    /\ []((pc[Caller] = "done" /\ obs.writes = 0) => obs.iters = 1)

\* The call has returned after as many extra loop bodies as there were
\* stores by other agents.
C17_Witness ==
    /\ pc[Caller] = "done" /\ IsRetry(Caller)
    /\ obs.writes = MaxWrites /\ obs.iters = MaxWrites + 1

\* ------------------------------------------------- racing compare-and-swaps
\* Every thread calls a compare-and-swap once, cpu_op_cmpeqv_storev or
\* cpu_op_cmpxchg, on the word v, all pinned to one CPU, each expecting the
\* value v held at the start and bringing a new value different from it.
\* The results stay in place.  obs records the CPU and the initial value.
\* The new values: enough of them for two callers to bring different ones.
RaceNew == 0..(MaxWord + 1)
RaceCmpeqvStorev ==
    \E t \in Threads :
        /\ pc[t] = "idle"
        /\ \E newv \in RaceNew \ {obs.a} :
              cpu_op_cmpeqv_storev(t, V, obs.a, newv, obs.cpu)
        /\ UNCHANGED obs
RaceCmpxchg ==
    \E t \in Threads :
        /\ pc[t] = "idle"
        /\ \E n \in RaceNew \ {obs.a} :
              cpu_op_cmpxchg(t, V, obs.a, 0, n, 1, obs.cpu)
        /\ UNCHANGED obs

NextRace ==
    \/ RaceCmpeqvStorev
    \/ RaceCmpxchg
    \/ Apply

InitRace ==
    /\ InitThreads
    /\ present \in BOOLEAN
    /\ mem \in {m \in [Addr -> Val] :
                  m[V] \in Words /\ \A a \in Addr \ {V} : m[a] = HeapWord(a)}
    /\ obs \in {o \in [a : Words, cpu : Cpus] : o.a = mem[V]}

SpecRace == InitRace /\ [][NextRace]_vars

\* The calls that returned success, and the new value a call brought.
Winners == {t \in Threads : pc[t] = "done" /\ ret[t] = 0}
NewOf(t) == IF call[t].fn = "cpu_op_cmpxchg" THEN call[t].n ELSE call[t].newv

\* C18: of the compare-and-swaps racing on one CPU for a word holding A,
\* each expecting A and bringing a value other than A, exactly one succeeds,
\* every other one reports the mismatch (a positive result), and the word
\* holds the winner's new value.
C18_OneWinner ==
    (present /\ \E t \in Threads : pc[t] = "done") =>
        /\ Cardinality(Winners) = 1
        /\ \A t \in Threads : pc[t] = "done" => (t \in Winners \/ ret[t] > 0)
        /\ \A w \in Winners : mem[V] = NewOf(w)

\* Every thread has returned; a cpu_op_cmpxchg won and a
\* cpu_op_cmpeqv_storev lost, with a different new value.
C18_Witness ==
    /\ present
    /\ \A t \in Threads : pc[t] = "done"
    /\ \E w \in Winners, l \in Threads \ Winners :
          /\ call[w].fn = "cpu_op_cmpxchg"
          /\ call[l].fn = "cpu_op_cmpeqv_storev"
          /\ ret[l] > 0
          /\ NewOf(l) # NewOf(w)

\* ------------------------------------------------- what cpu_op_cmpxchg keeps
\* One thread calls cpu_op_cmpxchg on v, call after call, while other agents
\* on any CPU store into v whenever they can run.  A store made while the
\* vector is applied comes from another CPU; obs.cross notes it.
NoXchg == [cross |-> FALSE]

XchgCall ==
    pc[Caller] = "idle" /\ \E expect \in Words, old \in Words, n \in Words, cpu \in Cpus :
        /\ cpu_op_cmpxchg(Caller, V, expect, old, n, 1, cpu)
        /\ obs' = NoXchg
XchgStore ==
    /\ pc[Caller] # "idle"
    /\ \E c \in Cpus, x \in Words :
          /\ EnvWrite(c, V, x)
          /\ obs' = [obs EXCEPT !.cross = @ \/ pc[Caller] = "kernel"]
XchgReturn == Finish(Caller) /\ obs' = NoXchg

InitXchg ==
    /\ InitThreads
    /\ present = TRUE
    /\ mem \in {m \in [Addr -> Val] :
                  m[V] \in Words /\ \A a \in Addr \ {V} : m[a] = HeapWord(a)}
    /\ obs = NoXchg

NextXchg ==
    \/ XchgCall
    \/ Apply
    \/ XchgStore
    \/ XchgReturn

SpecXchg == InitXchg /\ [][NextXchg]_vars

\* Thread t's cpu_op_cmpxchg has returned after its comparison was evaluated.
XchgCompared(t) ==
    /\ call[t].fn = "cpu_op_cmpxchg" /\ pc[t] = "done"
    /\ Len(hist[t].cmps) = 1

\* C19: with no store from another CPU while the vector was applied, the
\* old buffer of cpu_op_cmpxchg holds the value v held when the comparison
\* was evaluated: on success it equals expect; on a mismatch it differs from
\* expect and is the content of v, which the vector left unchanged.  Writers
\* on the vector's own CPU cannot come between the copy and the comparison.
C19_OldIsCompared ==
    \A t \in Threads :
        (XchgCompared(t) /\ ~obs.cross) =>
            /\ call[t].old = hist[t].cmps[1]
            /\ ret[t] = 0 => call[t].old = call[t].expect
            /\ ret[t] # 0 =>
                  /\ ret[t] = 2
                  /\ call[t].old # call[t].expect
                  /\ call[t].old = hist[t].v0
                  /\ hist[t].wr = << >>
                  /\ ~hist[t].intf => mem[call[t].v] = call[t].old

\* A mismatch was reported: the copy changed old, to a value other than
\* expect, and v still holds it.
C19_Witness ==
    \E t \in Threads :
        /\ XchgCompared(t) /\ ~obs.cross /\ ret[t] = 2
        /\ "old" \in hist[t].chgFrame
        /\ call[t].old # call[t].expect
        /\ call[t].n # call[t].old
        /\ mem[call[t].v] = call[t].old

\* ------------------------------------------------------------ racing adds
\* Every thread adds once to the integer of obs.len bytes at v, through
\* cpu_op_add, cpu_op_add_release or (for an integer as wide as a pointer)
\* cpu_op_addv, all pinned to one CPU; nobody else writes.  The results stay
\* in place.  obs records the CPU, the width, the initial content of the
\* word and the threads that went through cpu_op_addv.
Widths == {1, 2, SizeofIntptr}
\* The counts: small ones of either sign, and the largest of the width.
Counts(len) == {-1, 1, 2, Modulus(len) - 1}

AddCall ==
    \E t \in Threads :
        /\ pc[t] = "idle"
        /\ \E count \in Counts(obs.len) : cpu_op_add(t, V, count, obs.len, obs.cpu)
        /\ UNCHANGED obs
AddReleaseCall ==
    \E t \in Threads :
        /\ pc[t] = "idle"
        /\ \E count \in Counts(obs.len) :
              cpu_op_add_release(t, V, count, obs.len, obs.cpu)
        /\ UNCHANGED obs
AddvCall ==
    /\ obs.len = SizeofIntptr
    /\ \E t \in Threads :
          /\ pc[t] = "idle"
          /\ \E count \in Counts(obs.len) : cpu_op_addv(t, V, count, obs.cpu)
          /\ obs' = [obs EXCEPT !.addv = @ \cup {t}]

NextAdd ==
    \/ AddCall
    \/ AddReleaseCall
    \/ AddvCall
    \/ Apply

InitAdd ==
    /\ InitThreads
    /\ present \in BOOLEAN
    /\ mem \in {m \in [Addr -> Val] : \A a \in Addr \ {V} : m[a] = HeapWord(a)}
    /\ obs \in {o \in [init : Val, len : Widths, cpu : Cpus, addv : {{}}] :
                  o.init = mem[V]}

SpecAdd == InitAdd /\ [][NextAdd]_vars

\* The adds that returned success, and the sum of the counts of a set of
\* calls.
Added == {t \in Threads : pc[t] = "done" /\ ret[t] = 0}
RECURSIVE SumCounts(_)
SumCounts(S) ==
    IF S = {} THEN 0
    ELSE LET t == CHOOSE u \in S : TRUE
         IN  call[t].count + SumCounts(S \ {t})

\* C20: no add is lost: the integer of len bytes at v is its initial value
\* plus the counts of all the adds that returned success, modulo
\* 2^(ByteBits * len), however the calls interleave; and cpu_op_addv is
\* cpu_op_add with the width of a pointer.
C20_NoLostAdd ==
    /\ mem[V] % Modulus(obs.len)
          = ((obs.init % Modulus(obs.len)) + SumCounts(Added)) % Modulus(obs.len)
    /\ mem[V] \div Modulus(obs.len) = obs.init \div Modulus(obs.len)
    /\ \A t \in obs.addv :
          /\ call[t].fn = "cpu_op_add" /\ call[t].len = SizeofIntptr
          /\ pc[t] = "kernel" => vec[t] = opvec_add(V, call[t].count, SizeofIntptr)

\* Every thread's add succeeded, one through cpu_op_addv and one through
\* another entry point, and the sum wrapped around the width.
C20_Witness ==
    /\ Added = Threads
    /\ \E t \in obs.addv, u \in Threads \ obs.addv :
          call[u].fn = "cpu_op_add_release" /\ call[t].count # call[u].count
    /\ (obs.init % Modulus(obs.len)) + SumCounts(Added) >= Modulus(obs.len)
    /\ mem[V] # obs.init

\* ------------------------------------------- the two words and an observer
\* The observer reads the first word of its snapshot, then the other one; it
\* runs like any user code, so not while a vector is applied on its CPU,
\* and it may be preempted between its two reads.
ObsReadFirst ==
    /\ obs.pc \in {"start", "got"}
    /\ InKernel(obs.cpu) = {}
    /\ obs' = IF obs.first = 1
              THEN [obs EXCEPT !.pc = "half", !.w1 = mem[V]]
              ELSE [obs EXCEPT !.pc = "half", !.w2 = mem[V2]]
    /\ UNCHANGED <<mem, mapped, present, pc, call, vec, cnt, opidx, ret, errno,
                   curcpu, oldv, issued, hist>>

ObsReadSecond ==
    /\ obs.pc = "half"
    /\ InKernel(obs.cpu) = {}
    /\ obs' = IF obs.first = 1
              THEN [obs EXCEPT !.pc = "got", !.w2 = mem[V2]]
              ELSE [obs EXCEPT !.pc = "got", !.w1 = mem[V]]
    /\ UNCHANGED <<mem, mapped, present, pc, call, vec, cnt, opidx, ret, errno,
                   curcpu, oldv, issued, hist>>

\* Threads make the guarded call "if W1 == a1 then W2 := b2, then W1 := b1".
PairCall ==
    \E t \in Threads :
        cpu_op_cmpeqv_storev_storev(t, V, obs.a1, V2, obs.b2, obs.b1, obs.pin) /\ UNCHANGED obs

InitPair ==
    /\ InitThreads
    /\ present \in BOOLEAN
    /\ \E a1 \in Words, a2 \in Words, b1 \in Words, b2 \in Words :
       \E pin \in Cpus, c \in Cpus, first \in {1, 2} :
          /\ b1 # a1
          /\ b2 # a2
          /\ mem = [a \in Addr |-> IF a = V THEN a1 ELSE IF a = V2 THEN a2
                                    ELSE HeapWord(a)]
          /\ obs = [pc |-> "start", cpu |-> c, first |-> first, w1 |-> a1,
                    w2 |-> a2, a1 |-> a1, a2 |-> a2, b1 |-> b1, b2 |-> b2,
                    pin |-> pin]

NextPair ==
    \/ PairCall
    \/ Apply
    \/ ObsReadFirst
    \/ ObsReadSecond

SpecPair == InitPair /\ [][NextPair]_vars

\* ---------------------------------------------------- properties of SpecPair
Before == <<obs.a1, obs.a2>>
After == <<obs.b1, obs.b2>>
Snapshot == <<obs.w1, obs.w2>>

\* C2 as stated: every snapshot any observer takes of the two words is
\* (A1,A2) or (B1,B2).
C2_AnyObserver ==
    obs.pc = "got" => Snapshot \in {Before, After}

\* C2, amended: whenever code can run on the CPU the calls are pinned to,
\* the two words are (A1,A2) or (B1,B2); and an observer on that CPU that
\* reads W1 and then W2 gets (A1,A2), (A1,B2) or (B1,B2), never (B1,A2).
C2_PinnedObserver ==
    /\ InKernel(obs.pin) = {} => <<mem[V], mem[V2]>> \in {Before, After}
    /\ (obs.pc = "got" /\ obs.cpu = obs.pin /\ obs.first = 1) =>
          Snapshot \in {Before, After, <<obs.a1, obs.b2>>}

\* An observer on the pinned CPU, reading W1 first, has seen the pair after
\* a successful call.
C2_Witness ==
    /\ obs.pc = "got" /\ obs.cpu = obs.pin /\ obs.first = 1
    /\ Snapshot = After
    /\ \E t \in Threads : pc[t] = "done" /\ ret[t] = 0

\* ------------------------------------------------------ properties of Spec
IsCas(t) == call[t].fn \in {"cpu_op_cmpxchg", "cpu_op_cmpeqv_storev"}
\* The new value a compare-and-swap was asked to store.
CasNew(t) == IF call[t].fn = "cpu_op_cmpxchg" THEN call[t].n ELSE call[t].newv

\* C1: a compare-and-swap (cpu_op_cmpxchg, cpu_op_cmpeqv_storev) whose vector
\* was applied while v held A: with expect = A it returns 0 and v holds the
\* new value for as long as nobody else writes; with expect # A it returns
\* the mismatch (a positive value) and v still holds A.
C1_CompareAndSwap ==
    \A t \in Threads :
        (pc[t] = "done" /\ IsCas(t) /\ hist[t].applied /\ ~hist[t].intf) =>
            /\ hist[t].v0 = call[t].expect =>
                    ret[t] = 0 /\ mem[call[t].v] = CasNew(t)
            /\ hist[t].v0 # call[t].expect =>
                    ret[t] > 0 /\ mem[call[t].v] = hist[t].v0

\* A compare-and-swap from A to a different B has succeeded on cpu_op_cmpxchg.
C1_Witness ==
    \E t \in Threads :
        /\ pc[t] = "done" /\ call[t].fn = "cpu_op_cmpxchg"
        /\ hist[t].applied /\ ~hist[t].intf
        /\ hist[t].v0 = call[t].expect /\ call[t].n # call[t].expect
        /\ ret[t] = 0 /\ mem[call[t].v] = call[t].n

\* A call has reported a comparison mismatch.
Mismatch(t) == pc[t] = "done" /\ ret[t] > 0

\* C9 as stated: after a comparison mismatch every location the call names,
\* the old buffer of cpu_op_cmpxchg included, holds the value it held before.
C9_NoMutationAtAll ==
    \A t \in Threads :
        Mismatch(t) => hist[t].chgMem = {} /\ hist[t].chgFrame = {}

\* C9, amended: after a comparison mismatch the call has changed no word of
\* shared memory (v, v2, dst) and no cell of the caller's frame, except that
\* cpu_op_cmpxchg has overwritten its old buffer with the content of v.
C9_NoMutationButOld ==
    \A t \in Threads :
        Mismatch(t) =>
            /\ hist[t].chgMem = {}
            /\ call[t].fn # "cpu_op_cmpxchg" => hist[t].chgFrame = {}
            /\ call[t].fn = "cpu_op_cmpxchg" =>
                    /\ hist[t].chgFrame \subseteq {"old"}
                    /\ ~hist[t].intf => call[t].old = hist[t].v0

\* cpu_op_cmpxchg has reported a mismatch and its old buffer has changed.
C9_Witness ==
    \E t \in Threads :
        /\ Mismatch(t) /\ call[t].fn = "cpu_op_cmpxchg"
        /\ "old" \in hist[t].chgFrame
        /\ hist[t].chgMem = {}

=============================================================================
